---- MODULE Spec2Model ----
(***************************************************************************)
(* Patient-to-trial matching and ranking (src/src/findTrialsByChroma.py).  *)
(*                                                                         *)
(* SpecFilter models match_patient_to_trials: the demographic filter over  *)
(* the SQLite trial store.                                                 *)
(* SpecRank models rank_matched_trials: the vector-index ranking with its  *)
(* cosine-similarity fallback.                                             *)
(*                                                                         *)
(* A Python value that may be None is written as a sequence of length 0    *)
(* (None) or 1 (Some(x)); the same encoding is used for an SQL NULL.       *)
(***************************************************************************)
EXTENDS Integers, Sequences, FiniteSets, TLC

None == <<>>
Some(x) == <<x>>
Val(o) == o[1]

Min(a, b) == IF a <= b THEN a ELSE b

Range(s) == {s[i] : i \in DOMAIN s}

\* The sequences of length k of pairwise distinct elements of S.
Arrangements(S, k) ==
    {s \in [1..k -> S] : \A i, j \in 1..k : i # j => s[i] # s[j]}

(***************************************************************************)
(* Bounds and input samples of the Structured Filter.                      *)
(***************************************************************************)
MaxTrials == 2
MaxLimit == 2

\* Age bounds a trial row may carry, and ages a patient may have: below,
\* on and above the trial's bound.
TrialAgeSample == {1}
PatientAgeSample == {0, 1, 2}

SexValues == {"MALE", "FEMALE", "ALL"}
GenderSample == {"M", "F", "Male", "Female", "UN"}

OptionOf(S) == {None} \cup {Some(x) : x \in S}

TrialRow == [minimum_age : OptionOf(TrialAgeSample),
             maximum_age : OptionOf(TrialAgeSample),
             sex : SexValues]

\* The trials table: row i carries trial_id i (trial_id is UNIQUE).
TrialTables == UNION {[1..k -> TrialRow] : k \in 0..MaxTrials}

Demographics == [age : OptionOf(PatientAgeSample), gender : OptionOf(GenderSample)]

VARIABLES
    db_exists,       \* os.path.exists(db_path)
    trials,          \* the store's trials table
    demographics,    \* patient_data['demographics']
    limit,           \* the caller's cap
    match_pc,        \* position in match_patient_to_trials
    conn,            \* "none" | "open" | "closed": the SQLite connection
    total_matches,   \* result of the count query
    matches          \* the rows returned (after the cap)

filterVars == <<db_exists, trials, demographics, limit, match_pc, conn,
                total_matches, matches>>

(***************************************************************************)
(* Bounds and input samples of the Semantic Ranker.                        *)
(***************************************************************************)
MaxCand == 3
MaxTopK == 2

\* n_results of the unfiltered and of the alternative query: min(100, count).
MaxUnfiltered == 100

\* Ids of the documents the index may hold: the candidates' ids 1..MaxCand
\* and 0, a trial that is never a candidate.
DocIds == 0..MaxCand

\* Cosine distances, in units of 1: the metric is bounded by [0, 2].
DistanceSample == {0, 1, 2}

\* Embeddings: axis-aligned integer vectors, of norm 1 or 2.
Vectors == {<<1, 0>>, <<0, 1>>, <<-1, 0>>, <<2, 0>>}

\* Texts are sequences of tokens (numbers): the query is <<0>>, the title of
\* trial i is the token i, a condition name is a negative token.
QueryText == <<0>>

VARIABLES
    matched_trials,    \* the candidate dicts, in input order (mutated in place)
    top_k,             \* None or the requested number of results
    rank_pc,           \* position in rank_matched_trials
    collection_count,  \* collection.count(), once the collection is open
    results,           \* None or the query response [ids, distances]
    query_embedding,   \* None or the embedding of the query
    embeddings,        \* the embedding function's answers so far, by text
    ranked_trials,     \* references (positions in matched_trials)
    returned,          \* None or the returned list of references
    outcome,           \* how the call ended
    history            \* the failures and branches met, in order

rankVars == <<matched_trials, top_k, rank_pc, collection_count, results,
              query_embedding, embeddings, ranked_trials, returned, outcome,
              history>>

(***************************************************************************)
(* Bounds and inputs of the pipeline (src/src/combined_pipeline.py).       *)
(***************************************************************************)
MaxPatients == 2
MaxTotal == 2

\* The default cap of match_patient_to_trials, used by match_and_rank_trials.
DefaultLimit == 1000

\* What parse_ccda_file makes of a patient file: None or a patient record.
ParseResults == OptionOf({"patient"})

ChromaDirStates == {"missing", "empty", "populated"}

VARIABLES
    entry,            \* the function called: run_pipeline or match_and_rank_trials
    sqlite_exists,    \* os.path.exists(sqlite_db_path)
    chroma_dir,       \* state of the chroma_db_path directory
    is_dir,           \* os.path.isdir(patient_path)
    patient_files,    \* the patient files, each with its parse result
    max_patients,     \* run_pipeline's max_patients
    pipeline_top_k,   \* the top_k handed to the ranker and the evaluator
    json_files,       \* patients whose matched_trials_results.json exists
    pipeline_pc,      \* position in the pipeline
    patient_index,    \* the patient file being processed
    patient_data,     \* process_single_patient's patient_data
    filter_result,    \* None or what match_patient_to_trials returned
    ranker_result,    \* None or what rank_matched_trials returned
    json_record,      \* None or the record match_and_rank_trials wrote
    patient_results,  \* indices of the patients with a result, in order
    calls,            \* the calls and file writes made, in order
    raised            \* None or the exception that left the entry function

pipelineVars == <<entry, sqlite_exists, chroma_dir, is_dir, patient_files,
                  max_patients, pipeline_top_k, json_files, pipeline_pc,
                  patient_index, patient_data, filter_result, ranker_result,
                  json_record, patient_results, calls, raised>>

PipelineIdle ==
    /\ entry = "none"
    /\ sqlite_exists = FALSE
    /\ chroma_dir = "missing"
    /\ is_dir = FALSE
    /\ patient_files = <<>>
    /\ max_patients = 0
    /\ pipeline_top_k = 0
    /\ json_files = {}
    /\ pipeline_pc = "idle"
    /\ patient_index = 0
    /\ patient_data = None
    /\ filter_result = None
    /\ ranker_result = None
    /\ json_record = None
    /\ patient_results = <<>>
    /\ calls = <<>>
    /\ raised = None

(***************************************************************************)
(* Bounds and inputs of the Query Synthesizer (src/src/parseXMLs.py).      *)
(*                                                                         *)
(* A string is a sequence of fragments.  A date is a number, 0 for the     *)
(* empty string a missing date defaults to; a field that is present and    *)
(* null is None.  A name that is missing, null or empty is None.           *)
(***************************************************************************)
MaxConditions == 4
MaxMedications == 4
MaxLabs == 3
MaxProcedures == 3
MaxNotes == 2

\* Slices taken by the clauses: conditions[:3], medications[:3],
\* procedures[:2], relevant_sentences[:2]; at most 2 abnormal labs are named.
ConditionsNamed == 3
MedicationsNamed == 3
LabsNamed == 2
ProceduresNamed == 2
SentencesNamed == 2

QueryAgeSample == {0, 7}
QueryGenderSample == {"M", "F", "UN"}
DateSample == {0, 1}

\* A reference range or a lab value as the string it is: a number stands for
\* its digits, Dash for "-", Letters for text that is no number.
Dash == 0 - 1
Letters == 0 - 2
RangeSample == {<<>>, <<Letters>>, <<2, Dash, 4>>, <<Dash, 2, Dash, 4>>}
LabValueSample == {None, Some(<<3>>), Some(<<5>>), Some(<<Letters>>)}

\* The sentences re.split finds in a note: each is kept or not (non-empty,
\* holding an important term, shorter than 100 characters).
Sentence == [text : {"s1", "s2"}, relevant : BOOLEAN]
ContentSample ==
    {None, Some(<<>>),
     Some(<<[text |-> "s1", relevant |-> TRUE]>>),
     Some(<<[text |-> "s1", relevant |-> FALSE], [text |-> "s2", relevant |-> TRUE]>>)}
NoteTypeSample == {None, Some("Assessment"), Some("History")}

VARIABLES
    record,         \* the patient record handed to the synthesizer
    query_pc,       \* how many calls have been made
    first_query,    \* None or the outcome of the first call
    second_query    \* None or the outcome of the second call

queryVars == <<record, query_pc, first_query, second_query>>

EmptyRecord ==
    [demographics |-> None, conditions |-> <<>>, medications |-> <<>>,
     labs |-> <<>>, procedures |-> <<>>, clinicalNotes |-> <<>>]

QueryIdle ==
    /\ record = EmptyRecord
    /\ query_pc = "idle"
    /\ first_query = None
    /\ second_query = None

(***************************************************************************)
(* Bounds and inputs of the eligibility evaluation                         *)
(* (src/src/evaluatePatientEligibility.py) and of its report               *)
(* (src/src/generateOutput.py).  A dict key that may be missing is None    *)
(* when it is.                                                             *)
(***************************************************************************)
MaxRanked == 3
MaxResults == 2

ScoreSample == {0, 1, 2}

\* One criterion of an evaluation: is_met true, false or missing.
Criterion == [is_met : OptionOf(BOOLEAN)]
Met == [is_met |-> Some(TRUE)]
NotMet == [is_met |-> Some(FALSE)]
Unstated == [is_met |-> None]

\* The criteria lists an LLM answer may hold.
EvaluationSample ==
    {<<>>, <<Met>>, <<NotMet>>, <<Unstated>>, <<Met, Met>>, <<Met, NotMet>>}

VARIABLES
    trials_data,          \* matched_trials of the ranked-trials JSON file
    eval_top_k,           \* the evaluator's top_k
    eval_pc,              \* position in the evaluator or the formatter
    top_trials,           \* the trials to evaluate
    eval_results,         \* the evaluator's results list
    llm_log,              \* what the LLM did for each trial, in order
    eligibility_results,  \* None or the evaluator's result / the loaded file
    formatted_output      \* None or the formatter's result

evalVars == <<trials_data, eval_top_k, eval_pc, top_trials, eval_results, llm_log,
              eligibility_results, formatted_output>>

EvalIdle ==
    /\ trials_data = <<>>
    /\ eval_top_k = 0
    /\ eval_pc = "idle"
    /\ top_trials = <<>>
    /\ eval_results = <<>>
    /\ llm_log = <<>>
    /\ eligibility_results = None
    /\ formatted_output = None

(***************************************************************************)
(* Bounds and inputs of the rows match_patient_to_trials aggregates: the   *)
(* conditions and interventions tables of src/src/createCorpusDB.py.  A    *)
(* stored text is a sequence of characters or of longer fragments.         *)
(***************************************************************************)
MaxStoredConditions == 2
MaxStoredInterventions == 2

Comma == ","

\* condition_name values; the last holds a comma, as registry names do.
ConditionNameSample == {<<"a">>, <<"b">>, <<"a", Comma, "b">>}

\* (intervention_type, intervention_name) rows.
InterventionSample ==
    {[intervention_type |-> <<"DRUG">>, intervention_name |-> n] :
        n \in {<<"x">>, <<"x", Comma, "y">>}}

VARIABLES
    condition_rows,     \* the condition_name of each conditions row of the trial
    intervention_rows,  \* the interventions rows of the trial
    row_pc,             \* "idle", "stored", "selected", "returned"
    sql_row,            \* the aggregated columns of the trial's row, or None
    returned_trial          \* the dict the filter returns for the trial, or None

rowVars == <<condition_rows, intervention_rows, row_pc, sql_row, returned_trial>>

RowIdle ==
    /\ condition_rows = <<>>
    /\ intervention_rows = <<>>
    /\ row_pc = "idle"
    /\ sql_row = None
    /\ returned_trial = None

VARIABLES
    simple_output   \* None or what format_simple_results returned

simpleVars == <<simple_output>>

SimpleIdle == simple_output = None

(***************************************************************************)
(* Inputs of parse_age (src/src/createCorpusDB.py).  An age string of the  *)
(* registry is a sequence of tokens, each a run of digits or a word, the    *)
(* empty sequence for a trial that states no age.                          *)
(***************************************************************************)
Digits(n) == [digits |-> Some(n), word |-> ""]
Word(w) == [digits |-> None, word |-> w]

AgeNumberSample == {6, 18, 24}
AgeUnitSample == {"Years", "Months", "Weeks", "Days"}

AgeStringSample ==
    {<<>>, <<Word("N/A")>>}
        \cup {<<Digits(n), Word(u)>> : n \in AgeNumberSample, u \in AgeUnitSample}

VARIABLES
    minimumAge,           \* eligibilityModule.minimumAge
    maximumAge,           \* eligibilityModule.maximumAge
    structured_criteria   \* None or the parsed ages of the trial

ageVars == <<minimumAge, maximumAge, structured_criteria>>

AgeIdle ==
    /\ minimumAge = <<>>
    /\ maximumAge = <<>>
    /\ structured_criteria = None

(***************************************************************************)
(* Bounds and inputs of create_corpus_db (src/src/createVectorDB.py).      *)
(* Trial i of the store has the id i.                                      *)
(***************************************************************************)
MaxStored == 5
MaxBatch == 3

VARIABLES
    store_state,   \* "no_file", "no_trials_table" or "ready"
    stored_ids,    \* trial_ids: the answer of SELECT trial_id FROM trials
    batch_size,    \* the batch_size argument
    ingest_pc,     \* "idle", "start", "batching", "returned", "completed", "raised"
    batch_start,   \* i, the offset of the batch at hand
    add_calls,     \* the collection.add calls made: their ids and outcome
    collection     \* the ids of the documents in the index, as added

ingestVars == <<store_state, stored_ids, batch_size, ingest_pc, batch_start,
                add_calls, collection>>

IngestIdle ==
    /\ store_state = "no_file"
    /\ stored_ids = <<>>
    /\ batch_size = 1
    /\ ingest_pc = "idle"
    /\ batch_start = 0
    /\ add_calls = <<>>
    /\ collection = <<>>

(***************************************************************************)
(* Bounds and inputs of ClinicalTrialsDownloader.download_studies          *)
(* (src/src/scrapeTest.py).  Page p of the registry's answer holds the one *)
(* study p.                                                                *)
(***************************************************************************)
MaxPages == 3
MaxRetries == 3

VARIABLES
    server_pages,    \* the pages of studies the registry has
    trailing_token,  \* the last of them still carries a nextPageToken
    max_retries,     \* the max_retries argument
    download_pc,     \* "idle", "requesting", "saved", "raised"
    page_number,     \* the page being asked for
    attempt,         \* the requests made for it that failed
    requests_made,   \* per page asked for, the number of requests
    succeeded,       \* per page asked for, whether a response was parsed
    all_studies,     \* self.all_studies
    output_file      \* None or the studies written to self.output_file

downloadVars == <<server_pages, trailing_token, max_retries, download_pc,
                  page_number, attempt, requests_made, succeeded, all_studies,
                  output_file>>

DownloadIdle ==
    /\ server_pages = 0
    /\ trailing_token = FALSE
    /\ max_retries = 0
    /\ download_pc = "idle"
    /\ page_number = 1
    /\ attempt = 0
    /\ requests_made = <<0>>
    /\ succeeded = <<FALSE>>
    /\ all_studies = <<>>
    /\ output_file = None

vars == <<filterVars, rankVars, pipelineVars, queryVars, evalVars, rowVars, simpleVars, ageVars, ingestVars, downloadVars>>

\* What each specification leaves alone.
nonFilterVars == <<rankVars, pipelineVars, queryVars, evalVars, rowVars, simpleVars, ageVars, ingestVars, downloadVars>>
nonRankVars == <<filterVars, pipelineVars, queryVars, evalVars, rowVars, simpleVars, ageVars, ingestVars, downloadVars>>
nonPipelineVars == <<filterVars, rankVars, queryVars, evalVars, rowVars, simpleVars, ageVars, ingestVars, downloadVars>>
nonQueryVars == <<filterVars, rankVars, pipelineVars, evalVars, rowVars, simpleVars, ageVars, ingestVars, downloadVars>>
nonEvalVars == <<filterVars, rankVars, pipelineVars, queryVars, rowVars, simpleVars, ageVars, ingestVars, downloadVars>>
nonRowVars == <<filterVars, rankVars, pipelineVars, queryVars, evalVars, simpleVars, ageVars, ingestVars, downloadVars>>
nonSimpleVars == <<filterVars, rankVars, pipelineVars, queryVars, evalVars, rowVars, ageVars, ingestVars, downloadVars>>
nonAgeVars == <<filterVars, rankVars, pipelineVars, queryVars, evalVars, rowVars, simpleVars, ingestVars, downloadVars>>
nonIngestVars == <<filterVars, rankVars, pipelineVars, queryVars, evalVars, rowVars, simpleVars, ageVars, downloadVars>>
nonDownloadVars == <<filterVars, rankVars, pipelineVars, queryVars, evalVars, rowVars, simpleVars, ageVars, ingestVars>>

FilterIdle ==
    /\ db_exists = FALSE
    /\ trials = <<>>
    /\ demographics = [age |-> None, gender |-> None]
    /\ limit = 0
    /\ match_pc = "idle"
    /\ conn = "none"
    /\ total_matches = None
    /\ matches = <<>>

RankIdle ==
    /\ matched_trials = <<>>
    /\ top_k = None
    /\ rank_pc = "idle"
    /\ collection_count = None
    /\ results = None
    /\ query_embedding = None
    /\ embeddings = <<>>
    /\ ranked_trials = <<>>
    /\ returned = None
    /\ outcome = "none"
    /\ history = <<>>

(***************************************************************************)
(* match_patient_to_trials                                                 *)
(***************************************************************************)
gender_mapping_passthrough(gender) ==
    IF gender = None THEN None
    ELSE IF Val(gender) \in {"M", "Male"} THEN Some("MALE")
    ELSE IF Val(gender) \in {"F", "Female"} THEN Some("FEMALE")
    ELSE gender

\* gender_mapping.get(gender): None for a missing or unmapped gender.
gender_mapping(gender) ==
    IF gender = None THEN None
    ELSE IF Val(gender) \in {"M", "Male"} THEN Some("MALE")
    ELSE IF Val(gender) \in {"F", "Female"} THEN Some("FEMALE")
    ELSE None

AgeCriteria_truthy(age, t) ==
    \/ age = None
    \/ Val(age) = 0
    \/ /\ (t.minimum_age = None \/ Val(t.minimum_age) <= Val(age))
       /\ (t.maximum_age = None \/ Val(t.maximum_age) >= Val(age))

\* "if age is not None: AND (minimum_age IS NULL OR minimum_age <= ?)
\*                      AND (maximum_age IS NULL OR maximum_age >= ?)"
AgeCriteria(age, t) ==
    \/ age = None
    \/ /\ (t.minimum_age = None \/ Val(t.minimum_age) <= Val(age))
       /\ (t.maximum_age = None \/ Val(t.maximum_age) >= Val(age))

\* "if mapped_sex: AND (t.sex = ? OR t.sex = 'ALL')"
SexCriteria(mapped_sex, t) ==
    \/ mapped_sex = None
    \/ t.sex = Val(mapped_sex)
    \/ t.sex = "ALL"

\* The trial_ids selected by the WHERE clause both queries build.
WhereRows(age, mapped_sex) ==
    {id \in DOMAIN trials :
        AgeCriteria(age, trials[id]) /\ SexCriteria(mapped_sex, trials[id])}

CountQuery_capped(age, mapped_sex) ==
    Min(limit, Cardinality(WhereRows(age, mapped_sex)))

\* SELECT COUNT(DISTINCT t.trial_id) ... WHERE ...
CountQuery(age, mapped_sex) == Cardinality(WhereRows(age, mapped_sex))

\* SELECT ... WHERE ... GROUP BY t.trial_id LIMIT {limit}: one row per
\* selected trial, at most limit rows, in an order SQL leaves open.
SelectQuery(age, mapped_sex) ==
    LET rows == WhereRows(age, mapped_sex)
    IN  Arrangements(rows, Min(limit, Cardinality(rows)))

\* dict(row) for the row of trial id.
TrialDict(id) ==
    [trial_id |-> id,
     minimum_age |-> trials[id].minimum_age,
     maximum_age |-> trials[id].maximum_age,
     sex |-> trials[id].sex]

InitFilter ==
    /\ db_exists \in BOOLEAN
    /\ trials \in TrialTables
    /\ (~db_exists => trials = <<>>)
    /\ demographics \in Demographics
    /\ limit \in 0..MaxLimit
    /\ match_pc = "call"
    /\ conn = "none"
    /\ total_matches = None
    /\ matches = <<>>
    /\ RankIdle
    /\ PipelineIdle
    /\ QueryIdle
    /\ EvalIdle
    /\ RowIdle
    /\ SimpleIdle
    /\ AgeIdle
    /\ IngestIdle
    /\ DownloadIdle

MatchMissingStore_connects ==
    /\ match_pc = "call"
    /\ ~db_exists
    /\ match_pc' = "returned"
    /\ conn' = "closed"
    /\ total_matches' = Some(0)
    /\ matches' = <<>>
    /\ UNCHANGED <<db_exists, trials, demographics, limit>>
    /\ UNCHANGED nonFilterVars

\* Lines 30-32: the store file is missing: return [], 0.
MatchMissingStore ==
    /\ match_pc = "call"
    /\ ~db_exists
    /\ match_pc' = "returned"
    /\ total_matches' = Some(0)
    /\ matches' = <<>>
    /\ UNCHANGED <<db_exists, trials, demographics, limit, conn>>
    /\ UNCHANGED nonFilterVars

\* Lines 34-63: read the demographics, open the connection.
MatchConnect ==
    /\ match_pc = "call"
    /\ db_exists
    /\ conn' = "open"
    /\ match_pc' = "connected"
    /\ UNCHANGED <<db_exists, trials, demographics, limit, total_matches, matches>>
    /\ UNCHANGED nonFilterVars

\* Lines 65-91: the count query.
MatchCount ==
    /\ match_pc = "connected"
    /\ total_matches' =
          Some(CountQuery(demographics.age, gender_mapping(demographics.gender)))
    /\ match_pc' = "counted"
    /\ UNCHANGED <<db_exists, trials, demographics, limit, conn, matches>>
    /\ UNCHANGED nonFilterVars

\* Lines 93-163: the capped query, the rows made into dicts, close, return.
MatchSelect ==
    /\ match_pc = "counted"
    /\ \E rows \in SelectQuery(demographics.age, gender_mapping(demographics.gender)) :
          matches' = [i \in DOMAIN rows |-> TrialDict(rows[i])]
    /\ conn' = "closed"
    /\ match_pc' = "returned"
    /\ UNCHANGED <<db_exists, trials, demographics, limit, total_matches>>
    /\ UNCHANGED nonFilterVars

NextFilter ==
    \/ MatchMissingStore
    \/ MatchConnect
    \/ MatchCount
    \/ MatchSelect

SpecFilter == InitFilter /\ [][NextFilter]_vars

(***************************************************************************)
(* rank_matched_trials                                                     *)
(***************************************************************************)
\* The conditions of candidate i: none, one, two, ... condition names.
ConditionsOf(i) == [j \in 1..((i - 1) % 3) |-> 0 - j]

CandidateDict(i) ==
    [trial_id |-> i, trial_title |-> i, conditions |-> ConditionsOf(i),
     semantic_score |-> None]

\* trial_ids = [trial['trial_id'] for trial in matched_trials]
trial_ids == [i \in DOMAIN matched_trials |-> matched_trials[i].trial_id]

\* trial_dict = {trial['trial_id']: trial ...}: the reference held for an id.
trial_dict(doc_id) ==
    CHOOSE i \in DOMAIN matched_trials : matched_trials[i].trial_id = doc_id

NonDecreasing(d) == \A i \in 1..(Len(d) - 1) : d[i] <= d[i + 1]

\* What collection.query may answer with k results: k distinct documents,
\* nearest first.
QueryReturns(k) ==
    {[ids |-> a, distances |-> d] :
        a \in Arrangements(DocIds, k),
        d \in {x \in [1..k -> DistanceSample] : NonDecreasing(x)}}

\* "results and results['ids'] and results['ids'][0]"
HasResults(r) == r # None /\ Val(r).ids # <<>>

\* The positions of ids that hold an element of wanted, in order.
RECURSIVE KeptPositions(_, _)
KeptPositions(ids, wanted) ==
    IF ids = <<>> THEN <<>>
    ELSE LET rest == KeptPositions(SubSeq(ids, 1, Len(ids) - 1), wanted)
         IN  IF ids[Len(ids)] \in wanted THEN Append(rest, Len(ids)) ELSE rest

\* Lines 249-260: keep the (id, distance) pairs whose id is a candidate's.
ManualFilter(r) ==
    LET kept == KeptPositions(r.ids, Range(trial_ids))
    IN  [ids |-> [i \in DOMAIN kept |-> r.ids[kept[i]]],
         distances |-> [i \in DOMAIN kept |-> r.distances[kept[i]]]]

ScoreOfDistance_raw(distance) == distance

\* trial['semantic_score'] = 1.0 - distance
ScoreOfDistance(distance) == 1 - distance

RankedFromResults_inputOrder(r) ==
    LET kept == KeptPositions(trial_ids, Range(r.ids))
    IN  [i \in DOMAIN kept |-> kept[i]]

\* Lines 285-290: the references of the returned documents that are
\* candidates, in the order returned.
RankedFromResults(r) ==
    LET kept == KeptPositions(r.ids, Range(trial_ids))
    IN  [i \in DOMAIN kept |-> trial_dict(r.ids[kept[i]])]

\* Lines 285-290: the scores written into the candidate dicts.
ScoredFromResults(r) ==
    [i \in DOMAIN matched_trials |->
        IF matched_trials[i].trial_id \in Range(r.ids)
        THEN LET k == CHOOSE k \in DOMAIN r.ids : r.ids[k] = matched_trials[i].trial_id
             IN  [matched_trials[i] EXCEPT !.semantic_score =
                                             Some(ScoreOfDistance(r.distances[k]))]
        ELSE matched_trials[i]]

\* "if top_k is not None and top_k > 0: ranked_trials = ranked_trials[:top_k]"
Truncate(ranked, k) ==
    IF k # None /\ Val(k) > 0
    THEN SubSeq(ranked, 1, Min(Val(k), Len(ranked)))
    ELSE ranked

Abs(x) == IF x < 0 THEN 0 - x ELSE x
Dot(u, v) == u[1] * v[1] + u[2] * v[2]
\* The Euclidean norm of an axis-aligned vector.
Norm(v) == Abs(v[1]) + Abs(v[2])

cosine_similarity_dot(u, v) == Dot(u, v)

\* sklearn's cosine_similarity of two vectors.
cosine_similarity(u, v) == Dot(u, v) \div (Norm(u) * Norm(v))

\* f"{trial['trial_title']} {' '.join(trial['conditions'])}"
TrialText(trial) == <<trial.trial_title>> \o trial.conditions

\* The vectors embedding_function may return for a text: the function is
\* deterministic, so a text embedded before gets the same vector.
EmbeddingsOf(text) ==
    IF text \in DOMAIN embeddings THEN {embeddings[text]} ELSE Vectors

Remember(text, v) ==
    [t \in (DOMAIN embeddings) \cup {text} |-> IF t = text THEN v ELSE embeddings[t]]

Score(ref) == Val(matched_trials[ref].semantic_score)

\* sorted(ranked_trials, key=semantic_score, reverse=True): a stable sort,
\* equal scores keep their order.
RECURSIVE SortedByScore(_)
SortedByScore(refs) ==
    IF refs = <<>> THEN <<>>
    ELSE LET x == refs[Len(refs)]
             done == SortedByScore(SubSeq(refs, 1, Len(refs) - 1))
             n == Cardinality({i \in DOMAIN done : Score(done[i]) >= Score(x)})
         IN  SubSeq(done, 1, n) \o <<x>> \o SubSeq(done, n + 1, Len(done))

AllRefs == [i \in DOMAIN matched_trials |-> i]

InitRank ==
    /\ FilterIdle
    /\ PipelineIdle
    /\ QueryIdle
    /\ EvalIdle
    /\ RowIdle
    /\ SimpleIdle
    /\ AgeIdle
    /\ IngestIdle
    /\ DownloadIdle
    /\ \E n \in 0..MaxCand : matched_trials = [i \in 1..n |-> CandidateDict(i)]
    /\ top_k \in OptionOf(0..MaxTopK)
    /\ rank_pc = "call"
    /\ collection_count = None
    /\ results = None
    /\ query_embedding = None
    /\ embeddings = <<>>
    /\ ranked_trials = <<>>
    /\ returned = None
    /\ outcome = "none"
    /\ history = <<>>

\* "return value" with the outcome and the event that led to it.
Return(value, how, events) ==
    /\ returned' = Some(value)
    /\ outcome' = how
    /\ history' = history \o events
    /\ rank_pc' = "done"

\* Lines 178-179: no candidates.
RankNoCandidates ==
    /\ rank_pc = "call"
    /\ matched_trials = <<>>
    /\ Return(<<>>, "empty", <<>>)
    /\ UNCHANGED <<matched_trials, top_k, collection_count, results,
                   query_embedding, embeddings, ranked_trials>>
    /\ UNCHANGED nonRankVars

\* Lines 186-196: the collection is not listed: return matched_trials.
RankCollectionMissing ==
    /\ rank_pc = "call"
    /\ matched_trials # <<>>
    /\ Return(AllRefs, "unranked", <<"collection_missing">>)
    /\ UNCHANGED <<matched_trials, top_k, collection_count, results,
                   query_embedding, embeddings, ranked_trials>>
    /\ UNCHANGED nonRankVars

\* Lines 204-212: get_collection or count() raises: return matched_trials.
RankGetCollectionFails ==
    /\ rank_pc = "call"
    /\ matched_trials # <<>>
    /\ Return(AllRefs, "unranked", <<"collection_error">>)
    /\ UNCHANGED <<matched_trials, top_k, collection_count, results,
                   query_embedding, embeddings, ranked_trials>>
    /\ UNCHANGED nonRankVars

\* Lines 186-222: the collection is open; the query text is ready.
RankGetCollection ==
    /\ rank_pc = "call"
    /\ matched_trials # <<>>
    /\ \E count \in 0..Cardinality(DocIds) : collection_count' = Some(count)
    /\ rank_pc' = "restricted"
    /\ UNCHANGED <<matched_trials, top_k, results, query_embedding, embeddings,
                   ranked_trials, returned, outcome, history>>
    /\ UNCHANGED nonRankVars

\* Lines 225-236: the query restricted to the candidates' ids.
RankRestrictedQuery ==
    /\ rank_pc = "restricted"
    /\ \/ /\ rank_pc' = "alternative"
          /\ history' = Append(history, "query_error")
          /\ UNCHANGED results
       \/ \E k \in 0..Min(Len(trial_ids), Val(collection_count)) :
            \E r \in QueryReturns(k) :
               /\ results' = Some(r)
               /\ rank_pc' = IF r.ids # <<>> THEN "process" ELSE "unfiltered"
               /\ history' = IF r.ids # <<>> THEN history
                              ELSE Append(history, "restricted_empty")
    /\ UNCHANGED <<matched_trials, top_k, collection_count, query_embedding,
                   embeddings, ranked_trials, returned, outcome>>
    /\ UNCHANGED nonRankVars

\* Lines 237-263: the restricted query returned nothing: query the whole
\* index and keep the candidates' ids.
RankUnfilteredQuery ==
    /\ rank_pc = "unfiltered"
    /\ \/ /\ rank_pc' = "alternative"
          /\ history' = Append(history, "query_error")
          /\ UNCHANGED results
       \/ \E r \in QueryReturns(Min(MaxUnfiltered, Val(collection_count))) :
               /\ results' = IF r.ids # <<>> THEN Some(ManualFilter(r)) ELSE Some(r)
               /\ rank_pc' = "process"
               /\ history' = IF r.ids = <<>>
                              THEN Append(history, "unfiltered_empty")
                              ELSE IF ManualFilter(r).ids = <<>>
                              THEN Append(history, "unfiltered_disjoint")
                              ELSE history
    /\ UNCHANGED <<matched_trials, top_k, collection_count, query_embedding,
                   embeddings, ranked_trials, returned, outcome>>
    /\ UNCHANGED nonRankVars

\* Lines 265-276: a query raised: query the whole index once more.
RankAlternativeQuery ==
    /\ rank_pc = "alternative"
    /\ \/ /\ results' = None
          /\ history' = Append(history, "alternative_error")
       \/ \E r \in QueryReturns(Min(MaxUnfiltered, Val(collection_count))) :
               /\ results' = Some(r)
               /\ UNCHANGED history
    /\ rank_pc' = "process"
    /\ UNCHANGED <<matched_trials, top_k, collection_count, query_embedding,
                   embeddings, ranked_trials, returned, outcome>>
    /\ UNCHANGED nonRankVars

\* Lines 278-299: results came back: score the candidates among them, in
\* the order returned, cut to top_k, return.
RankPrimary ==
    /\ rank_pc = "process"
    /\ HasResults(results)
    /\ matched_trials' = ScoredFromResults(Val(results))
    /\ ranked_trials' = RankedFromResults(Val(results))
    /\ Return(Truncate(ranked_trials', top_k), "primary", <<>>)
    /\ UNCHANGED <<top_k, collection_count, results, query_embedding, embeddings>>
    /\ UNCHANGED nonRankVars

\* Lines 300-312: no results: the fallback starts by embedding the query.
RankFallbackStart ==
    /\ rank_pc = "process"
    /\ ~HasResults(results)
    /\ \/ /\ Return(AllRefs, "unranked",
                    <<"primary_empty", "fallback_started", "fallback_error">>)
          /\ UNCHANGED <<query_embedding, embeddings>>
       \/ \E v \in EmbeddingsOf(QueryText) :
            /\ query_embedding' = Some(v)
            /\ embeddings' = Remember(QueryText, v)
            /\ history' = history \o <<"primary_empty", "fallback_started">>
            /\ rank_pc' = "fallback"
            /\ UNCHANGED <<returned, outcome>>
    /\ UNCHANGED <<matched_trials, top_k, collection_count, results, ranked_trials>>
    /\ UNCHANGED nonRankVars

\* Lines 313-323: one turn of the loop: embed the next candidate's text and
\* write its score; an exception leaves the loop (lines 335-338).
RankFallbackScore ==
    /\ rank_pc = "fallback"
    /\ Len(ranked_trials) < Len(matched_trials)
    /\ LET i == Len(ranked_trials) + 1
           trial_text == TrialText(matched_trials[i])
       IN  \/ /\ Return(AllRefs, "unranked", <<"fallback_error">>)
              /\ UNCHANGED <<matched_trials, embeddings, ranked_trials>>
           \/ \E v \in EmbeddingsOf(trial_text) :
                /\ embeddings' = Remember(trial_text, v)
                /\ matched_trials' =
                      [matched_trials EXCEPT ![i].semantic_score =
                          Some(cosine_similarity(Val(query_embedding), v))]
                /\ ranked_trials' = Append(ranked_trials, i)
                /\ UNCHANGED <<rank_pc, returned, outcome, history>>
    /\ UNCHANGED <<top_k, collection_count, results, query_embedding>>
    /\ UNCHANGED nonRankVars

\* Lines 325-334: every candidate is scored: sort, cut to top_k, return.
RankFallbackReturn ==
    /\ rank_pc = "fallback"
    /\ Len(ranked_trials) = Len(matched_trials)
    /\ ranked_trials' = SortedByScore(ranked_trials)
    /\ Return(Truncate(ranked_trials', top_k), "fallback", <<>>)
    /\ UNCHANGED <<matched_trials, top_k, collection_count, results,
                   query_embedding, embeddings>>
    /\ UNCHANGED nonRankVars

NextRank ==
    \/ RankNoCandidates
    \/ RankCollectionMissing
    \/ RankGetCollectionFails
    \/ RankGetCollection
    \/ RankRestrictedQuery
    \/ RankUnfilteredQuery
    \/ RankAlternativeQuery
    \/ RankPrimary
    \/ RankFallbackStart
    \/ RankFallbackScore
    \/ RankFallbackReturn

SpecRank == InitRank /\ [][NextRank]_vars

(***************************************************************************)
(* run_pipeline, process_single_patient (src/src/combined_pipeline.py) and *)
(* match_and_rank_trials (src/src/findTrialsByChroma.py).  The filter and  *)
(* the ranker take part by what they return.                               *)
(***************************************************************************)
PatientFileLists == UNION {[1..n -> ParseResults] : n \in 0..MaxPatients}

\* register_namespaces(); parse_ccda_file(path): the same for every call.
parse_ccda_file(i) == patient_files[i]

ParseFailed_never(data) == FALSE

\* "if not patient_data:"
ParseFailed(data) == data = None

\* match_patient_to_trials(patient_data, db_path): the rows, at most
\* DefaultLimit of them, and the count of all matching trials.
FilterOutcomes ==
    {[matched_trials |-> [i \in 1..Min(DefaultLimit, n) |-> i], total_matches |-> n] :
        n \in 0..MaxTotal}

\* ranked[:top_k] under the ranker's guard "top_k is not None and top_k > 0".
TopOf(ranked, k) ==
    IF k > 0 /\ k < Len(ranked) THEN SubSeq(ranked, 1, k) ELSE ranked

\* rank_matched_trials(matched_trials, ...): candidates in some order, some of
\* them possibly dropped by the index, cut at top_k.
RankerOutcomes(candidates, k) ==
    {TopOf(r, k) : r \in UNION {Arrangements(S, Cardinality(S)) :
                                   S \in SUBSET Range(candidates)}}

NeedsStore(exists) == ~exists

NeedsIndex_missing(dir) == dir = "missing"

\* "not os.path.exists(chroma_db_path) or not os.listdir(chroma_db_path)"
NeedsIndex(dir) == dir \in {"missing", "empty"}

ResultRecord_counted(ranked, total) ==
    [matched_trials |-> ranked, total_matches |-> Len(ranked)]

\* The JSON record of lines 489-498, without the patient block.
ResultRecord(ranked, total) ==
    [matched_trials |-> ranked, total_matches |-> total]

Call(op, i) == [op |-> op, patient |-> i]

InitPipeline ==
    /\ FilterIdle
    /\ RankIdle
    /\ QueryIdle
    /\ EvalIdle
    /\ RowIdle
    /\ SimpleIdle
    /\ AgeIdle
    /\ IngestIdle
    /\ DownloadIdle
    /\ entry \in {"run_pipeline", "match_and_rank_trials"}
    /\ sqlite_exists \in BOOLEAN
    /\ chroma_dir \in ChromaDirStates
    /\ is_dir \in BOOLEAN
    /\ patient_files \in PatientFileLists
    /\ (~is_dir => Len(patient_files) = 1)
    /\ max_patients \in 0..MaxPatients
    /\ pipeline_top_k \in 0..MaxTopK
    /\ json_files \in SUBSET (DOMAIN patient_files)
    /\ (entry = "match_and_rank_trials" =>
           ~is_dir /\ max_patients = 0 /\ json_files = {})
    /\ pipeline_pc = IF entry = "run_pipeline" THEN "step1" ELSE "match"
    /\ patient_index = IF entry = "run_pipeline" THEN 0 ELSE 1
    /\ patient_data = None
    /\ filter_result = None
    /\ ranker_result = None
    /\ json_record = None
    /\ patient_results = <<>>
    /\ calls = <<>>
    /\ raised = None

\* run_pipeline lines 174-184, step 1.
PipelineSetupStore ==
    /\ pipeline_pc = "step1"
    /\ IF NeedsStore(sqlite_exists)
         THEN /\ calls' = Append(calls, Call("process_json_file", 0))
              /\ sqlite_exists' = TRUE
         ELSE UNCHANGED <<calls, sqlite_exists>>
    /\ pipeline_pc' = "step2"
    /\ UNCHANGED <<entry, chroma_dir, is_dir, patient_files, max_patients,
                   pipeline_top_k, json_files, patient_index, patient_data,
                   filter_result, ranker_result, json_record, patient_results,
                   raised>>
    /\ UNCHANGED nonPipelineVars

\* run_pipeline lines 186-195, step 2: create_corpus_db may leave the
\* directory empty (no tables, no trials).
PipelineSetupIndex ==
    /\ pipeline_pc = "step2"
    /\ IF NeedsIndex(chroma_dir)
         THEN /\ calls' = Append(calls, Call("create_corpus_db", 0))
              /\ chroma_dir' \in {"empty", "populated"}
         ELSE UNCHANGED <<calls, chroma_dir>>
    /\ pipeline_pc' = "list"
    /\ UNCHANGED <<entry, sqlite_exists, is_dir, patient_files, max_patients,
                   pipeline_top_k, json_files, patient_index, patient_data,
                   filter_result, ranker_result, json_record, patient_results,
                   raised>>
    /\ UNCHANGED nonPipelineVars

\* run_pipeline lines 197-211: the files to process, cut at max_patients.
PipelineListPatients ==
    /\ pipeline_pc = "list"
    /\ patient_files' =
          IF is_dir /\ max_patients # 0 /\ max_patients < Len(patient_files)
            THEN SubSeq(patient_files, 1, max_patients)
            ELSE patient_files
    /\ pipeline_pc' = "loop"
    /\ UNCHANGED <<entry, sqlite_exists, chroma_dir, is_dir, max_patients,
                   pipeline_top_k, json_files, patient_index, patient_data,
                   filter_result, ranker_result, json_record, patient_results,
                   calls, raised>>
    /\ UNCHANGED nonPipelineVars

\* What process_single_patient and match_and_rank_trials start from.
FreshPatient ==
    /\ filter_result' = None
    /\ ranker_result' = None
    /\ json_record' = None

\* After match_and_rank_trials: back in process_single_patient, or done.
AfterMatch == IF entry = "run_pipeline" THEN "evaluate" ELSE "done"

\* process_single_patient lines 57-71 for the next file: the parser returns
\* null, the function returns None and the loop goes on.
PatientParseFails ==
    /\ pipeline_pc = "loop"
    /\ patient_index < Len(patient_files)
    /\ ParseFailed(parse_ccda_file(patient_index + 1))
    /\ patient_index' = patient_index + 1
    /\ calls' = Append(calls, Call("parse_ccda_file", patient_index + 1))
    /\ patient_data' = None
    /\ FreshPatient
    /\ UNCHANGED <<entry, sqlite_exists, chroma_dir, is_dir, patient_files,
                   max_patients, pipeline_top_k, json_files, pipeline_pc,
                   patient_results, raised>>
    /\ UNCHANGED nonPipelineVars

\* process_single_patient lines 57-86 for the next file: the parser returns
\* a record.
PatientParsed ==
    /\ pipeline_pc = "loop"
    /\ patient_index < Len(patient_files)
    /\ ~ParseFailed(parse_ccda_file(patient_index + 1))
    /\ patient_index' = patient_index + 1
    /\ calls' = Append(calls, Call("parse_ccda_file", patient_index + 1))
    /\ patient_data' = parse_ccda_file(patient_index + 1)
    /\ FreshPatient
    /\ pipeline_pc' = "match"
    /\ UNCHANGED <<entry, sqlite_exists, chroma_dir, is_dir, patient_files,
                   max_patients, pipeline_top_k, json_files, patient_results,
                   raised>>
    /\ UNCHANGED nonPipelineVars

\* match_and_rank_trials lines 437-447: its own parse returns null.
MatchAndRankParseFails ==
    /\ pipeline_pc = "match"
    /\ parse_ccda_file(patient_index) = None
    /\ calls' = Append(calls, Call("parse_ccda_file", patient_index))
    /\ pipeline_pc' = AfterMatch
    /\ UNCHANGED <<entry, sqlite_exists, chroma_dir, is_dir, patient_files,
                   max_patients, pipeline_top_k, json_files, patient_index,
                   patient_data, filter_result, ranker_result, json_record,
                   patient_results, raised>>
    /\ UNCHANGED nonPipelineVars

\* match_and_rank_trials lines 437-463: the filter matches no trial and the
\* function returns before it writes a file.
MatchAndRankNoTrials ==
    /\ pipeline_pc = "match"
    /\ parse_ccda_file(patient_index) # None
    /\ \E f \in FilterOutcomes :
          /\ f.matched_trials = <<>>
          /\ filter_result' = Some(f)
    /\ calls' = calls \o <<Call("parse_ccda_file", patient_index),
                           Call("match_patient_to_trials", patient_index)>>
    /\ pipeline_pc' = AfterMatch
    /\ UNCHANGED <<entry, sqlite_exists, chroma_dir, is_dir, patient_files,
                   max_patients, pipeline_top_k, json_files, patient_index,
                   patient_data, ranker_result, json_record, patient_results,
                   raised>>
    /\ UNCHANGED nonPipelineVars

\* match_and_rank_trials lines 437-507: candidates are ranked, the text
\* file and the JSON record are written.
MatchAndRankWrites ==
    /\ pipeline_pc = "match"
    /\ parse_ccda_file(patient_index) # None
    /\ \E f \in FilterOutcomes :
          /\ f.matched_trials # <<>>
          /\ filter_result' = Some(f)
          /\ \E r \in RankerOutcomes(f.matched_trials, pipeline_top_k) :
                /\ ranker_result' = Some(r)
                /\ json_record' = Some(ResultRecord(r, f.total_matches))
    /\ calls' = calls \o <<Call("parse_ccda_file", patient_index),
                           Call("match_patient_to_trials", patient_index),
                           Call("rank_matched_trials", patient_index),
                           Call("write_results_txt", patient_index),
                           Call("write_results_json", patient_index)>>
    /\ json_files' = json_files \cup {patient_index}
    /\ pipeline_pc' = AfterMatch
    /\ UNCHANGED <<entry, sqlite_exists, chroma_dir, is_dir, patient_files,
                   max_patients, pipeline_top_k, patient_index, patient_data,
                   patient_results, raised>>
    /\ UNCHANGED nonPipelineVars

\* process_single_patient lines 96-108 and evaluate_patient_eligibility
\* lines 43-45: the JSON file is not there, open() raises, and neither
\* process_single_patient nor run_pipeline catches it.
EvaluateMissingJson ==
    /\ pipeline_pc = "evaluate"
    /\ patient_index \notin json_files
    /\ calls' = Append(calls, Call("evaluate_patient_eligibility", patient_index))
    /\ raised' = Some("FileNotFoundError")
    /\ pipeline_pc' = "raised"
    /\ UNCHANGED <<entry, sqlite_exists, chroma_dir, is_dir, patient_files,
                   max_patients, pipeline_top_k, json_files, patient_index,
                   patient_data, filter_result, ranker_result, json_record,
                   patient_results>>
    /\ UNCHANGED nonPipelineVars

\* process_single_patient lines 96-135 and run_pipeline lines 228-229: the
\* trials are evaluated, the results saved and formatted, the result kept.
EvaluateAndOutput ==
    /\ pipeline_pc = "evaluate"
    /\ patient_index \in json_files
    /\ calls' = calls \o <<Call("evaluate_patient_eligibility", patient_index),
                           Call("write_eligibility_json", patient_index),
                           Call("generate_output", patient_index)>>
    /\ patient_results' = Append(patient_results, patient_index)
    /\ pipeline_pc' = "loop"
    /\ UNCHANGED <<entry, sqlite_exists, chroma_dir, is_dir, patient_files,
                   max_patients, pipeline_top_k, json_files, patient_index,
                   patient_data, filter_result, ranker_result, json_record,
                   raised>>
    /\ UNCHANGED nonPipelineVars

\* run_pipeline lines 249-301: the summary of several patients, the return.
PipelineReturn ==
    /\ pipeline_pc = "loop"
    /\ patient_index = Len(patient_files)
    /\ calls' = IF Len(patient_results) > 1
                  THEN Append(calls, Call("generate_output", 0))
                  ELSE calls
    /\ pipeline_pc' = "done"
    /\ UNCHANGED <<entry, sqlite_exists, chroma_dir, is_dir, patient_files,
                   max_patients, pipeline_top_k, json_files, patient_index,
                   patient_data, filter_result, ranker_result, json_record,
                   patient_results, raised>>
    /\ UNCHANGED nonPipelineVars

NextPipeline ==
    \/ PipelineSetupStore
    \/ PipelineSetupIndex
    \/ PipelineListPatients
    \/ PatientParseFails
    \/ PatientParsed
    \/ MatchAndRankParseFails
    \/ MatchAndRankNoTrials
    \/ MatchAndRankWrites
    \/ EvaluateMissingJson
    \/ EvaluateAndOutput
    \/ PipelineReturn

SpecPipeline == InitPipeline /\ [][NextPipeline]_vars

(***************************************************************************)
(* generate_semantic_search_query (src/src/parseXMLs.py)                   *)
(***************************************************************************)
\* The positions 1..n that are in wanted, in order.
RECURSIVE Positions(_, _)
Positions(n, wanted) ==
    IF n = 0 THEN <<>>
    ELSE IF n \in wanted THEN Append(Positions(n - 1, wanted), n)
    ELSE Positions(n - 1, wanted)

Prefix(s, n) == SubSeq(s, 1, Min(n, Len(s)))

\* [x for x in items if "name" in x and x["name"]]
Named(items) ==
    LET keep == Positions(Len(items), {i \in DOMAIN items : items[i].name # None})
    IN  [i \in DOMAIN keep |-> items[keep[i]]]

\* sorted(items, key=lambda x: x.get(field, ""), reverse=True) compares the
\* keys with "<", which raises TypeError when a key is None.
SortRaises(items, field) ==
    Len(items) >= 2 /\ \E i \in DOMAIN items : items[i][field] = None

\* The stable sort, largest key first.
RECURSIVE SortedRecent(_, _)
SortedRecent(items, field) ==
    IF items = <<>> THEN <<>>
    ELSE LET x == Head(items)
             rest == SortedRecent(Tail(items), field)
             p == Cardinality({i \in DOMAIN rest :
                                  Val(rest[i][field]) > Val(x[field])})
         IN  SubSeq(rest, 1, p) \o <<x>> \o SubSeq(rest, p + 1, Len(rest))

\* sep.join(parts) for parts that are strings.
RECURSIVE Join(_, _)
Join(sep, parts) ==
    IF parts = <<>> THEN <<>>
    ELSE IF Len(parts) = 1 THEN parts[1]
    ELSE parts[1] \o <<sep>> \o Join(sep, Tail(parts))

NamesOf(items) == [i \in DOMAIN items |-> <<Val(items[i].name)>>]

\* Lines 672-690: the parts the demographics add.
DemographicParts(demo) ==
    IF demo = None THEN <<>>
    ELSE LET age == Val(demo).age
             gender == Val(demo).gender
             hasAge == age # None /\ Val(age) # 0
             hasGender == gender # None
         IN  IF hasAge /\ hasGender
               THEN IF Val(gender) = "M"
                      THEN <<<<ToString(Val(age)), "-year-old male patient">>>>
                    ELSE IF Val(gender) = "F"
                      THEN <<<<ToString(Val(age)), "-year-old female patient">>>>
                    ELSE <<<<ToString(Val(age)), "-year-old patient">>>>
             ELSE IF hasAge
               THEN <<<<ToString(Val(age)), "-year-old patient">>>>
             ELSE IF hasGender
               THEN IF Val(gender) = "M" THEN <<<<"Male patient">>>>
                    ELSE IF Val(gender) = "F" THEN <<<<"Female patient">>>>
                    ELSE <<>>
             ELSE <<>>

ConditionParts_inputOrder(conditions) ==
    LET names == NamesOf(Prefix(Named(conditions), ConditionsNamed))
        n == Len(names)
    IN  IF n = 0 THEN <<>>
        ELSE IF n = 1 THEN << <<"diagnosed with ">> \o names[1] >>
        ELSE << <<"diagnosed with ">> \o Join(", ", SubSeq(names, 1, n - 1))
                   \o <<" and ">> \o names[n] >>

\* Lines 692-708: the named conditions, most recent first, three at most.
ConditionParts(conditions) ==
    LET names == NamesOf(Prefix(SortedRecent(Named(conditions), "onsetDate"),
                                ConditionsNamed))
        n == Len(names)
    IN  IF n = 0 THEN <<>>
        ELSE IF n = 1 THEN << <<"diagnosed with ">> \o names[1] >>
        ELSE << <<"diagnosed with ">> \o Join(", ", SubSeq(names, 1, n - 1))
                   \o <<" and ">> \o names[n] >>

\* Lines 710-719: the names among the first three medications.
MedicationParts(medications) ==
    LET names == NamesOf(Named(Prefix(medications, MedicationsNamed)))
        n == Len(names)
    IN  IF n = 0 THEN <<>>
        ELSE IF n = 1 THEN << <<"currently taking ">> \o names[1] >>
        ELSE << <<"currently taking ">> \o Join(", ", SubSeq(names, 1, n - 1))
                   \o <<" and ">> \o names[n] >>

\* str.split("-"): the pieces between the dashes.
RECURSIVE SplitDash(_)
SplitDash(s) ==
    IF \A i \in DOMAIN s : s[i] # Dash THEN <<s>>
    ELSE LET d == CHOOSE i \in DOMAIN s :
                      s[i] = Dash /\ \A j \in 1..(i - 1) : s[j] # Dash
         IN  <<SubSeq(s, 1, d - 1)>> \o SplitDash(SubSeq(s, d + 1, Len(s)))

\* float(s.strip()): None where Python raises ValueError or TypeError.
FloatOf(s) ==
    IF s = None THEN None
    ELSE LET t == Val(s)
         IN  IF Len(t) = 1 /\ t[1] >= 0 THEN Some(t[1])
             ELSE IF Len(t) = 2 /\ t[1] = Dash /\ t[2] >= 0 THEN Some(0 - t[2])
             ELSE None

\* Lines 725-743: the lab's value lies outside its "low-high" range; what
\* the try block raises is swallowed.
Abnormal(lab) ==
    /\ \E i \in DOMAIN lab.referenceRange : lab.referenceRange[i] = Dash
    /\ LET range_parts == SplitDash(lab.referenceRange)
           low == FloatOf(Some(range_parts[1]))
           high == FloatOf(Some(range_parts[2]))
           value == FloatOf(lab.value)
       IN  /\ low # None
           /\ high # None
           /\ value # None
           /\ (Val(value) < Val(low) \/ Val(value) > Val(high))

\* f"{lab_name} {lab_value} {lab_unit}"
LabText(lab) ==
    <<lab.name, " ">> \o [i \in DOMAIN Val(lab.value) |->
                             IF Val(lab.value)[i] = Dash THEN "-"
                             ELSE ToString(Val(lab.value)[i])]
        \o <<" ", lab.unit>>

LabParts_any(labs) ==
    LET keep == Positions(Len(labs), {i \in DOMAIN labs : Abnormal(labs[i])})
        abnormal_labs == [i \in DOMAIN keep |-> LabText(labs[keep[i]])]
    IN  IF abnormal_labs # <<>>
          THEN << <<"with abnormal ">> \o Join(" and ", abnormal_labs) >>
          ELSE <<>>

\* Lines 721-747: one or two abnormal labs are named, more are not.
LabParts(labs) ==
    LET keep == Positions(Len(labs), {i \in DOMAIN labs : Abnormal(labs[i])})
        abnormal_labs == [i \in DOMAIN keep |-> LabText(labs[keep[i]])]
    IN  IF abnormal_labs # <<>> /\ Len(abnormal_labs) <= LabsNamed
          THEN << <<"with abnormal ">> \o Join(" and ", abnormal_labs) >>
          ELSE <<>>

\* Lines 749-765: the named procedures, most recent first, two at most.
ProcedureParts(procedures) ==
    LET names == NamesOf(Prefix(SortedRecent(Named(procedures), "date"),
                                ProceduresNamed))
    IN  IF names = <<>> THEN <<>>
        ELSE << <<"underwent ">> \o Join(" and ", names) >>

\* Lines 771-773: a note whose type holds "Assessment" or "Plan".
AssessmentNotes(clinical_notes) ==
    LET keep == Positions(Len(clinical_notes),
                          {i \in DOMAIN clinical_notes :
                              clinical_notes[i].type \in
                                  {Some("Assessment"), Some("Plan")}})
    IN  [i \in DOMAIN keep |-> clinical_notes[keep[i]]]

\* Lines 775-799: up to two kept sentences of the latest assessment note.
NoteParts(clinical_notes) ==
    LET assessment_notes == AssessmentNotes(clinical_notes)
    IN  IF assessment_notes = <<>> THEN <<>>
        ELSE LET latest_note == SortedRecent(assessment_notes, "date")[1]
                 sentences == Val(latest_note.content)
                 keep == Positions(Len(sentences),
                                   {i \in DOMAIN sentences : sentences[i].relevant})
                 relevant_sentences == [i \in DOMAIN keep |-> sentences[keep[i]].text]
             IN  [i \in DOMAIN Prefix(relevant_sentences, SentencesNamed) |->
                     <<"note: ", relevant_sentences[i]>>]

\* Where the function raises TypeError: a null sort key among two or more
\* items, a null note type, a null content of the latest assessment note.
QueryRaises(r) ==
    \/ SortRaises(Named(r.conditions), "onsetDate")
    \/ SortRaises(Named(r.procedures), "date")
    \/ \E i \in DOMAIN r.clinicalNotes : r.clinicalNotes[i].type = None
    \/ LET assessment_notes == AssessmentNotes(r.clinicalNotes)
       IN  /\ assessment_notes # <<>>
           /\ \/ SortRaises(assessment_notes, "date")
              \/ SortedRecent(assessment_notes, "date")[1].content = None

QueryParts_labsLast(r) ==
    DemographicParts(r.demographics) \o ConditionParts(r.conditions)
        \o MedicationParts(r.medications) \o ProcedureParts(r.procedures)
        \o NoteParts(r.clinicalNotes) \o LabParts(r.labs)

\* query_parts at line 802.
QueryParts(r) ==
    DemographicParts(r.demographics) \o ConditionParts(r.conditions)
        \o MedicationParts(r.medications) \o LabParts(r.labs)
        \o ProcedureParts(r.procedures) \o NoteParts(r.clinicalNotes)

FallbackQuery == <<"patient requires clinical trial matching">>

Raised(e) == [raised |-> TRUE, value |-> <<e>>]
Returned(v) == [raised |-> FALSE, value |-> v]

\* The outcome of a call: the exception raised or the string returned.
generate_semantic_search_query(r) ==
    IF QueryRaises(r) THEN Raised("TypeError")
    ELSE IF QueryParts(r) # <<>> THEN Returned(Join(" ", QueryParts(r)))
    ELSE Returned(FallbackQuery)

\* Item i of a list is named after its position when it has a name.
ItemShapes == [named : BOOLEAN, key : OptionOf(DateSample)]

ConditionList(f) ==
    [i \in DOMAIN f |-> [name |-> IF f[i].named THEN Some(ToString(i)) ELSE None,
                         onsetDate |-> f[i].key]]

ProcedureList(f) ==
    [i \in DOMAIN f |-> [name |-> IF f[i].named THEN Some(ToString(i)) ELSE None,
                         date |-> f[i].key]]

MedicationList(f) ==
    [i \in DOMAIN f |-> [name |-> IF f[i] THEN Some(ToString(i)) ELSE None]]

\* Labs with an abnormal value against every range, and every value against
\* a range that parses.
LabSample ==
    {lab \in [name : {"hb"}, value : LabValueSample, unit : {"g"},
              referenceRange : RangeSample] :
        lab.value = Some(<<5>>) \/ lab.referenceRange = <<2, Dash, 4>>}

NoteSample ==
    [type : NoteTypeSample, date : OptionOf(DateSample), content : ContentSample]

QueryDemographics ==
    OptionOf([age : OptionOf(QueryAgeSample), gender : OptionOf(QueryGenderSample)])

\* A record whose every section yields a clause.
SimpleRecord ==
    [demographics |-> Some([age |-> Some(7), gender |-> Some("F")]),
     conditions |-> <<[name |-> Some("1"), onsetDate |-> Some(1)]>>,
     medications |-> <<[name |-> Some("1")]>>,
     labs |-> <<[name |-> "hb", value |-> Some(<<5>>), unit |-> "g",
                 referenceRange |-> <<2, Dash, 4>>]>>,
     procedures |-> <<[name |-> Some("1"), date |-> Some(1)]>>,
     clinicalNotes |-> <<[type |-> Some("Assessment"), date |-> Some(1),
                          content |-> Some(<<[text |-> "s1", relevant |-> TRUE]>>)]>>]

\* The records tried: one section takes every shape of its sample while the
\* others are all empty or all simple.
InitQuery ==
    /\ FilterIdle
    /\ RankIdle
    /\ PipelineIdle
    /\ EvalIdle
    /\ RowIdle
    /\ SimpleIdle
    /\ AgeIdle
    /\ IngestIdle
    /\ DownloadIdle
    /\ \E base \in {EmptyRecord, SimpleRecord} :
          \/ \E x \in QueryDemographics :
                record = [base EXCEPT !.demographics = x]
          \/ \E k \in 0..MaxConditions : \E f \in [1..k -> ItemShapes] :
                record = [base EXCEPT !.conditions = ConditionList(f)]
          \/ \E k \in 0..MaxMedications : \E f \in [1..k -> BOOLEAN] :
                record = [base EXCEPT !.medications = MedicationList(f)]
          \/ \E k \in 0..MaxLabs : \E x \in [1..k -> LabSample] :
                record = [base EXCEPT !.labs = x]
          \/ \E k \in 0..MaxProcedures : \E f \in [1..k -> ItemShapes] :
                record = [base EXCEPT !.procedures = ProcedureList(f)]
          \/ \E k \in 0..MaxNotes : \E x \in [1..k -> NoteSample] :
                record = [base EXCEPT !.clinicalNotes = x]
    /\ query_pc = "start"
    /\ first_query = None
    /\ second_query = None

SynthesizeFirst_inplace ==
    /\ query_pc = "start"
    /\ first_query' = Some(generate_semantic_search_query(record))
    /\ record' = IF SortRaises(Named(record.conditions), "onsetDate")
                   THEN record
                   ELSE [record EXCEPT !.conditions =
                            SortedRecent(Named(record.conditions), "onsetDate")]
    /\ query_pc' = "once"
    /\ UNCHANGED second_query
    /\ UNCHANGED nonQueryVars

\* A call of generate_semantic_search_query(record): the lists it sorts and
\* filters are copies, the record is left as it was.
SynthesizeFirst ==
    /\ query_pc = "start"
    /\ first_query' = Some(generate_semantic_search_query(record))
    /\ query_pc' = "once"
    /\ UNCHANGED <<record, second_query>>
    /\ UNCHANGED nonQueryVars

\* A second call on the same record.
SynthesizeSecond ==
    /\ query_pc = "once"
    /\ second_query' = Some(generate_semantic_search_query(record))
    /\ query_pc' = "twice"
    /\ UNCHANGED <<record, first_query>>
    /\ UNCHANGED nonQueryVars

NextQuery ==
    \/ SynthesizeFirst
    \/ SynthesizeSecond

SpecQuery == InitQuery /\ [][NextQuery]_vars

(***************************************************************************)
(* match_patient_to_trials: the conditions and interventions of a returned *)
(* trial (src/src/findTrialsByChroma.py, lines 94-113 and 142-159).        *)
(***************************************************************************)
\* str.split(sep): the pieces between the separators.
RECURSIVE Split(_, _)
Split(s, sep) ==
    IF \A i \in DOMAIN s : s[i] # sep THEN <<s>>
    ELSE LET d == CHOOSE i \in DOMAIN s :
                      s[i] = sep /\ \A j \in 1..(i - 1) : s[j] # sep
         IN  <<SubSeq(s, 1, d - 1)>> \o Split(SubSeq(s, d + 1, Len(s)), sep)

\* GROUP_CONCAT(DISTINCT x): NULL over no value, else the distinct values
\* joined by ',' in an order SQLite leaves open.
GroupConcat(values) ==
    IF values = {} THEN {None}
    ELSE {Some(Join(Comma, a)) : a \in Arrangements(values, Cardinality(values))}

\* i.intervention_type || ': ' || i.intervention_name
InterventionText(i) == i.intervention_type \o <<": ">> \o i.intervention_name

StoredConditionNames == Range(condition_rows)

StoredInterventions == Range(intervention_rows)

\* Lines 146-149: "if trial.get('conditions'): ... .split(',') else []".
SplitConditions(text) ==
    IF text = None \/ Val(text) = <<>> THEN <<>> ELSE Split(Val(text), Comma)

\* Lines 151-157: one {'intervention': piece} per piece of the split text.
SplitInterventions(text) ==
    IF text = None \/ Val(text) = <<>> THEN <<>>
    ELSE LET pieces == Split(Val(text), Comma)
         IN  [k \in DOMAIN pieces |-> [intervention |-> pieces[k]]]

InitRows ==
    /\ \E k \in 0..MaxStoredConditions :
          condition_rows \in [1..k -> ConditionNameSample]
    /\ \E k \in 0..MaxStoredInterventions :
          intervention_rows \in [1..k -> InterventionSample]
    /\ row_pc = "stored"
    /\ sql_row = None
    /\ returned_trial = None
    /\ FilterIdle
    /\ RankIdle
    /\ PipelineIdle
    /\ QueryIdle
    /\ EvalIdle
    /\ SimpleIdle
    /\ AgeIdle
    /\ IngestIdle
    /\ DownloadIdle

\* Lines 94-113: the two LEFT JOINs grouped into the trial's row.
SelectRow ==
    /\ row_pc = "stored"
    /\ \E c \in GroupConcat(StoredConditionNames) :
       \E i \in GroupConcat({InterventionText(x) : x \in StoredInterventions}) :
          sql_row' = Some([conditions |-> c, interventions |-> i])
    /\ row_pc' = "selected"
    /\ UNCHANGED <<condition_rows, intervention_rows, returned_trial>>
    /\ UNCHANGED nonRowVars

\* Lines 142-159: the row made into the returned dict.
RowToDict ==
    /\ row_pc = "selected"
    /\ returned_trial' = Some([conditions |-> SplitConditions(Val(sql_row).conditions),
                           interventions |-> SplitInterventions(Val(sql_row).interventions)])
    /\ row_pc' = "returned"
    /\ UNCHANGED <<condition_rows, intervention_rows, sql_row>>
    /\ UNCHANGED nonRowVars

NextRows ==
    \/ SelectRow
    \/ RowToDict

SpecRows == InitRows /\ [][NextRows]_vars

(***************************************************************************)
(* parse_age and the ages parse_clinical_trial_eligibility stores          *)
(* (src/src/createCorpusDB.py).                                            *)
(***************************************************************************)
\* Lines 94-100: None for an empty string, else the first run of digits as
\* an integer, None when there is none.
parse_age(age_string) ==
    IF age_string = <<>> THEN None
    ELSE IF \E i \in DOMAIN age_string : age_string[i].digits # None
      THEN age_string[CHOOSE i \in DOMAIN age_string :
                         /\ age_string[i].digits # None
                         /\ \A j \in 1..(i - 1) : age_string[j].digits = None].digits
    ELSE None

InitAge ==
    /\ FilterIdle
    /\ RankIdle
    /\ PipelineIdle
    /\ QueryIdle
    /\ EvalIdle
    /\ RowIdle
    /\ SimpleIdle
    /\ IngestIdle
    /\ DownloadIdle
    /\ minimumAge \in AgeStringSample
    /\ maximumAge \in AgeStringSample
    /\ structured_criteria = None

\* Lines 29-36: the structured criteria of a trial.
ParseEligibility ==
    /\ structured_criteria = None
    /\ structured_criteria' = Some([minimum_age |-> parse_age(minimumAge),
                                    maximum_age |-> parse_age(maximumAge)])
    /\ UNCHANGED <<minimumAge, maximumAge>>
    /\ UNCHANGED nonAgeVars

NextAge == ParseEligibility

SpecAge == InitAge /\ [][NextAge]_vars

(***************************************************************************)
(* create_corpus_db (src/src/createVectorDB.py)                            *)
(***************************************************************************)
BatchIds_overlapping(ids, i, size) == SubSeq(ids, i + 1, Min(i + size + 1, Len(ids)))

\* Line 80: trial_ids[i:i+batch_size]
BatchIds(ids, i, size) == SubSeq(ids, i + 1, Min(i + size, Len(ids)))

InitIngest ==
    /\ FilterIdle
    /\ RankIdle
    /\ PipelineIdle
    /\ QueryIdle
    /\ EvalIdle
    /\ RowIdle
    /\ SimpleIdle
    /\ AgeIdle
    /\ DownloadIdle
    /\ store_state \in {"no_file", "no_trials_table", "ready"}
    /\ \E n \in 0..MaxStored : stored_ids = [i \in 1..n |-> i]
    /\ (store_state # "ready" => stored_ids = <<>>)
    /\ batch_size \in 1..MaxBatch
    /\ ingest_pc = "start"
    /\ batch_start = 0
    /\ add_calls = <<>>
    /\ collection = <<>>

\* Lines 18-53: no file, no table or no trials table: return.
IngestNoStore ==
    /\ ingest_pc = "start"
    /\ store_state # "ready"
    /\ ingest_pc' = "returned"
    /\ UNCHANGED <<store_state, stored_ids, batch_size, batch_start, add_calls,
                   collection>>
    /\ UNCHANGED nonIngestVars

\* Lines 55-76: the count, the collection, the list of trial ids.
IngestOpen ==
    /\ ingest_pc = "start"
    /\ store_state = "ready"
    /\ ingest_pc' = "batching"
    /\ UNCHANGED <<store_state, stored_ids, batch_size, batch_start, add_calls,
                   collection>>
    /\ UNCHANGED nonIngestVars

\* Lines 79-157: one turn of the loop whose collection.add returns: the
\* documents of the batch are in the index.
IngestBatch ==
    /\ ingest_pc = "batching"
    /\ batch_start < Len(stored_ids)
    /\ LET ids == BatchIds(stored_ids, batch_start, batch_size)
       IN  /\ add_calls' = Append(add_calls, [ids |-> ids, added |-> TRUE])
           /\ collection' = collection \o ids
    /\ batch_start' = batch_start + batch_size
    /\ UNCHANGED <<store_state, stored_ids, batch_size, ingest_pc>>
    /\ UNCHANGED nonIngestVars

\* Lines 79-157: one turn of the loop whose collection.add raises: nothing
\* catches the exception and the call of create_corpus_db ends with it.
IngestBatchRaises ==
    /\ ingest_pc = "batching"
    /\ batch_start < Len(stored_ids)
    /\ add_calls' = Append(add_calls,
                           [ids |-> BatchIds(stored_ids, batch_start, batch_size),
                            added |-> FALSE])
    /\ ingest_pc' = "raised"
    /\ UNCHANGED <<store_state, stored_ids, batch_size, batch_start, collection>>
    /\ UNCHANGED nonIngestVars

\* Lines 159-160: the range is exhausted.
IngestComplete ==
    /\ ingest_pc = "batching"
    /\ batch_start >= Len(stored_ids)
    /\ ingest_pc' = "completed"
    /\ UNCHANGED <<store_state, stored_ids, batch_size, batch_start, add_calls,
                   collection>>
    /\ UNCHANGED nonIngestVars

NextIngest ==
    \/ IngestNoStore
    \/ IngestOpen
    \/ IngestBatch
    \/ IngestBatchRaises
    \/ IngestComplete

SpecIngest == InitIngest /\ [][NextIngest]_vars

(***************************************************************************)
(* ClinicalTrialsDownloader.download_studies (src/src/scrapeTest.py)       *)
(***************************************************************************)
\* data.get("studies", []) of the answer to the request for the page.
StudiesOf(p) == IF p <= server_pages THEN <<p>> ELSE <<>>

\* data.get("nextPageToken") is truthy.
HasNextPage(p) == p < server_pages \/ (p = server_pages /\ trailing_token)

InitDownload ==
    /\ FilterIdle
    /\ RankIdle
    /\ PipelineIdle
    /\ QueryIdle
    /\ EvalIdle
    /\ RowIdle
    /\ SimpleIdle
    /\ AgeIdle
    /\ IngestIdle
    /\ server_pages \in 0..MaxPages
    /\ trailing_token \in BOOLEAN
    /\ max_retries \in 0..MaxRetries
    /\ download_pc = "requesting"
    /\ page_number = 1
    /\ attempt = 0
    /\ requests_made = <<0>>
    /\ succeeded = <<FALSE>>
    /\ all_studies = <<>>
    /\ output_file = None

\* Lines 48-59: a request that raises a RequestException before the last
\* attempt: sleep and try again.
RequestFails ==
    /\ download_pc = "requesting"
    /\ attempt < max_retries - 1
    /\ requests_made' = [requests_made EXCEPT ![page_number] = @ + 1]
    /\ attempt' = attempt + 1
    /\ UNCHANGED <<server_pages, trailing_token, max_retries, download_pc,
                   page_number, succeeded, all_studies, output_file>>
    /\ UNCHANGED nonDownloadVars

RequestFailsLast_saving ==
    /\ download_pc = "requesting"
    /\ attempt = max_retries - 1
    /\ requests_made' = [requests_made EXCEPT ![page_number] = @ + 1]
    /\ attempt' = attempt + 1
    /\ output_file' = Some(all_studies)
    /\ download_pc' = "raised"
    /\ UNCHANGED <<server_pages, trailing_token, max_retries, page_number,
                   succeeded, all_studies>>
    /\ UNCHANGED nonDownloadVars

\* Lines 48-62: the last attempt raises a RequestException: re-raised, and
\* download_studies ends with it.
RequestFailsLast ==
    /\ download_pc = "requesting"
    /\ attempt = max_retries - 1
    /\ requests_made' = [requests_made EXCEPT ![page_number] = @ + 1]
    /\ attempt' = attempt + 1
    /\ download_pc' = "raised"
    /\ UNCHANGED <<server_pages, trailing_token, max_retries, page_number,
                   succeeded, all_studies, output_file>>
    /\ UNCHANGED nonDownloadVars

\* Lines 47-65 with max_retries = 0: no request is made and response.json()
\* raises on the None response.
NoAttempt ==
    /\ download_pc = "requesting"
    /\ max_retries = 0
    /\ download_pc' = "raised"
    /\ UNCHANGED <<server_pages, trailing_token, max_retries, page_number, attempt,
                   requests_made, succeeded, all_studies, output_file>>
    /\ UNCHANGED nonDownloadVars

\* Lines 48-79: a request answered with studies and a nextPageToken: the
\* studies are kept and the next page is asked for.
RequestSucceedsMore ==
    /\ download_pc = "requesting"
    /\ attempt < max_retries
    /\ StudiesOf(page_number) # <<>>
    /\ HasNextPage(page_number)
    /\ requests_made' = Append([requests_made EXCEPT ![page_number] = @ + 1], 0)
    /\ succeeded' = Append([succeeded EXCEPT ![page_number] = TRUE], FALSE)
    /\ all_studies' = all_studies \o StudiesOf(page_number)
    /\ page_number' = page_number + 1
    /\ attempt' = 0
    /\ UNCHANGED <<server_pages, trailing_token, max_retries, download_pc,
                   output_file>>
    /\ UNCHANGED nonDownloadVars

\* Lines 48-90 and 105-112: a request answered without studies or without a
\* nextPageToken: the loop ends and the studies are written to the file.
RequestSucceedsLast ==
    /\ download_pc = "requesting"
    /\ attempt < max_retries
    /\ StudiesOf(page_number) = <<>> \/ ~HasNextPage(page_number)
    /\ requests_made' = [requests_made EXCEPT ![page_number] = @ + 1]
    /\ succeeded' = [succeeded EXCEPT ![page_number] = TRUE]
    /\ all_studies' = all_studies \o StudiesOf(page_number)
    /\ output_file' = Some(all_studies')
    /\ download_pc' = "saved"
    /\ UNCHANGED <<server_pages, trailing_token, max_retries, page_number, attempt>>
    /\ UNCHANGED nonDownloadVars

NextDownload ==
    \/ RequestFails
    \/ RequestFailsLast
    \/ NoAttempt
    \/ RequestSucceedsMore
    \/ RequestSucceedsLast

SpecDownload == InitDownload /\ [][NextDownload]_vars

(***************************************************************************)
(* evaluate_patient_eligibility (src/src/evaluatePatientEligibility.py)    *)
(***************************************************************************)
\* The ranked trials of the JSON file: trial i at rank i, with or without a
\* semantic_score.
RankedFiles ==
    UNION {{[i \in 1..n |-> [trial_id |-> i, semantic_score |-> f[i]]] :
               f \in [1..n -> OptionOf({1})]} :
           n \in 0..MaxRanked}

TopTrials_all(ranked, k) == ranked

\* ranked_trials[:min(top_k, len(ranked_trials))]
TopTrials(ranked, k) == SubSeq(ranked, 1, Min(k, Len(ranked)))

\* trial.get("semantic_score", 0)
ScoreOrZero(trial) ==
    IF trial.semantic_score = None THEN 0 ELSE Val(trial.semantic_score)

\* A result entry; evaluation, raw_response and error are None when the
\* entry has no such key.
ResultEntry(trial, evaluation, raw_response, error) ==
    [trial_id |-> trial.trial_id, semantic_score |-> ScoreOrZero(trial),
     evaluation |-> evaluation, raw_response |-> raw_response, error |-> error]

InitEvaluate ==
    /\ FilterIdle
    /\ RankIdle
    /\ PipelineIdle
    /\ QueryIdle
    /\ RowIdle
    /\ SimpleIdle
    /\ AgeIdle
    /\ IngestIdle
    /\ DownloadIdle
    /\ trials_data \in RankedFiles
    /\ eval_top_k \in 0..(MaxRanked + 1)
    /\ eval_pc = "call"
    /\ top_trials = <<>>
    /\ eval_results = <<>>
    /\ llm_log = <<>>
    /\ eligibility_results = None
    /\ formatted_output = None

\* Lines 36-76: the file is read, the trials are cut at top_k.
EvaluateLoad ==
    /\ eval_pc = "call"
    /\ top_trials' = TopTrials(trials_data, eval_top_k)
    /\ eval_pc' = "loop"
    /\ UNCHANGED <<trials_data, eval_top_k, eval_results, llm_log,
                   eligibility_results, formatted_output>>
    /\ UNCHANGED nonEvalVars

\* The loop body for the next trial, with what the LLM call came to.
EvaluateTrial(evaluation, raw_response, error, what) ==
    /\ eval_pc = "loop"
    /\ Len(eval_results) < Len(top_trials)
    /\ eval_results' =
          Append(eval_results,
                 ResultEntry(top_trials[Len(eval_results) + 1],
                             evaluation, raw_response, error))
    /\ llm_log' = Append(llm_log, what)
    /\ UNCHANGED <<trials_data, eval_top_k, eval_pc, top_trials,
                   eligibility_results, formatted_output>>
    /\ UNCHANGED nonEvalVars

\* Lines 78-150: the response holds JSON.
EvaluateTrialJson ==
    \E evaluation \in EvaluationSample :
        EvaluateTrial(Some(evaluation), None, None, "json")

\* Lines 78-160: json.loads raises JSONDecodeError.
EvaluateTrialNotJson ==
    EvaluateTrial(None, Some("response_text"),
                  Some("Failed to parse JSON response"), "not_json")

\* Lines 78-170: llm.invoke raises.
EvaluateTrialLlmRaises ==
    EvaluateTrial(None, None, Some("API Error"), "raises")

\* Lines 172-178: the return value.
EvaluateReturn ==
    /\ eval_pc = "loop"
    /\ Len(eval_results) = Len(top_trials)
    /\ eligibility_results' =
          Some([trials_evaluated |-> Len(eval_results), results |-> eval_results])
    /\ eval_pc' = "done"
    /\ UNCHANGED <<trials_data, eval_top_k, top_trials, eval_results, llm_log,
                   formatted_output>>
    /\ UNCHANGED nonEvalVars

NextEvaluate ==
    \/ EvaluateLoad
    \/ EvaluateTrialJson
    \/ EvaluateTrialNotJson
    \/ EvaluateTrialLlmRaises
    \/ EvaluateReturn

SpecEvaluate == InitEvaluate /\ [][NextEvaluate]_vars

(***************************************************************************)
(* format_results_for_output (src/src/generateOutput.py)                   *)
(***************************************************************************)
\* The results a loaded eligibility file may hold: result i is trial i.
FileEntries ==
    [semantic_score : ScoreSample, evaluation : OptionOf(EvaluationSample),
     error : OptionOf({"API Error"})]

LoadedResults(f) ==
    [i \in DOMAIN f |-> [trial_id |-> i, semantic_score |-> f[i].semantic_score,
                         evaluation |-> f[i].evaluation, raw_response |-> None,
                         error |-> f[i].error]]

\* "if 'error' in trial or 'evaluation' not in trial"
Indeterminate(trial) == trial.error # None \/ trial.evaluation = None

AllCriteriaMet_any(evaluation) ==
    \E i \in DOMAIN evaluation : evaluation[i].is_met = Some(TRUE)

\* all(criterion.get('is_met', False) for criterion in evaluation)
AllCriteriaMet(evaluation) ==
    \A i \in DOMAIN evaluation : evaluation[i].is_met = Some(TRUE)

\* list.sort(key=lambda x: x["semantic_score"], reverse=True): stable.
RECURSIVE SortedBySemanticScore(_)
SortedBySemanticScore(items) ==
    IF items = <<>> THEN <<>>
    ELSE LET x == Head(items)
             rest == SortedBySemanticScore(Tail(items))
             p == Cardinality({i \in DOMAIN rest :
                                  rest[i].semantic_score > x.semantic_score})
         IN  SubSeq(rest, 1, p) \o <<x>> \o SubSeq(rest, p + 1, Len(rest))

\* The summaries of the trial_results at the positions in wanted, in order.
Summaries(trial_results, wanted) ==
    LET keep == Positions(Len(trial_results), wanted)
    IN  [i \in DOMAIN keep |->
            [trial_id |-> trial_results[keep[i]].trial_id,
             semantic_score |-> trial_results[keep[i]].semantic_score]]

format_results_for_output(file) ==
    LET trial_results == file.results
        indeterminate == {i \in DOMAIN trial_results : Indeterminate(trial_results[i])}
        eligible == {i \in DOMAIN trial_results \ indeterminate :
                        AllCriteriaMet(Val(trial_results[i].evaluation))}
        ineligible == (DOMAIN trial_results \ indeterminate) \ eligible
    IN  [total_trials_evaluated |-> file.trials_evaluated,
         eligible_trials |-> SortedBySemanticScore(Summaries(trial_results, eligible)),
         ineligible_trials |-> SortedBySemanticScore(Summaries(trial_results, ineligible)),
         indeterminate_trials |->
             SortedBySemanticScore(Summaries(trial_results, indeterminate))]

InitFormat ==
    /\ FilterIdle
    /\ RankIdle
    /\ PipelineIdle
    /\ QueryIdle
    /\ RowIdle
    /\ SimpleIdle
    /\ AgeIdle
    /\ IngestIdle
    /\ DownloadIdle
    /\ trials_data = <<>>
    /\ eval_top_k = 0
    /\ eval_pc = "format"
    /\ top_trials = <<>>
    /\ eval_results = <<>>
    /\ llm_log = <<>>
    /\ \E n \in 0..MaxResults : \E f \in [1..n -> FileEntries] :
          eligibility_results =
              Some([trials_evaluated |-> n, results |-> LoadedResults(f)])
    /\ formatted_output = None

\* Lines 84-167.
FormatResults ==
    /\ eval_pc = "format"
    /\ formatted_output' = Some(format_results_for_output(Val(eligibility_results)))
    /\ eval_pc' = "formatted"
    /\ UNCHANGED <<trials_data, eval_top_k, top_trials, eval_results, llm_log,
                   eligibility_results>>
    /\ UNCHANGED nonEvalVars

\* Lines 68-69: the criteria whose is_met equals True.
CriteriaMet(evaluation) ==
    Positions(Len(evaluation), {i \in DOMAIN evaluation : evaluation[i].is_met = Some(TRUE)})

\* Lines 39-81: the trials without error whose criteria are all met and
\* that have a met criterion, in input order.
format_simple_results(file) ==
    LET trial_results == file.results
        eligible == {i \in DOMAIN trial_results :
                        /\ ~Indeterminate(trial_results[i])
                        /\ AllCriteriaMet(Val(trial_results[i].evaluation))
                        /\ CriteriaMet(Val(trial_results[i].evaluation)) # <<>>}
        keep == Positions(Len(trial_results), eligible)
    IN  [eligibleTrials |->
            [i \in DOMAIN keep |->
                [trialId |-> trial_results[keep[i]].trial_id,
                 eligibilityCriteriaMet |->
                     CriteriaMet(Val(trial_results[keep[i]].evaluation))]]]

\* A call of format_simple_results on the loaded results.
FormatSimple ==
    /\ eval_pc \in {"format", "formatted"}
    /\ simple_output = None
    /\ simple_output' = Some(format_simple_results(Val(eligibility_results)))
    /\ UNCHANGED nonSimpleVars

NextFormat ==
    \/ FormatResults
    \/ FormatSimple

SpecFormat == InitFormat /\ [][NextFormat]_vars

(***************************************************************************)
(* Properties of the Structured Filter (checked under SpecFilter).         *)
(***************************************************************************)
\* The sex of a patient whose gender code is M, F, Male or Female; else unknown.
KnownSex ==
    IF demographics.gender \in {Some("M"), Some("Male")} THEN Some("MALE")
    ELSE IF demographics.gender \in {Some("F"), Some("Female")} THEN Some("FEMALE")
    ELSE None

AgeAdmits(t, a) ==
    /\ (t.minimum_age = None \/ Val(t.minimum_age) <= a)
    /\ (t.maximum_age = None \/ Val(t.maximum_age) >= a)

SexAdmits(t, s) == t.sex = s \/ t.sex = "ALL"

\* The trials of the store compatible with what is known of the patient.
CompatibleTrials ==
    {id \in DOMAIN trials :
        /\ (demographics.age # None => AgeAdmits(trials[id], Val(demographics.age)))
        /\ (KnownSex # None => SexAdmits(trials[id], Val(KnownSex)))}

MatchIds == {matches[i].trial_id : i \in DOMAIN matches}

FilterReturned == match_pc = "returned" /\ db_exists

\* C1: for a patient with known age A and mappable sex S, every returned
\* trial satisfies (minimum_age is null or <= A) and (maximum_age is null or
\* >= A) and (sex = S or sex = 'ALL').
C1_FilterSound ==
    (FilterReturned /\ demographics.age # None /\ KnownSex # None) =>
        \A i \in DOMAIN matches :
            /\ AgeAdmits(matches[i], Val(demographics.age))
            /\ SexAdmits(matches[i], Val(KnownSex))

C1_Witness ==
    /\ FilterReturned /\ demographics.age # None /\ KnownSex # None
    /\ matches # <<>>
    /\ \E id \in DOMAIN trials : id \notin CompatibleTrials
    /\ \E i \in DOMAIN matches : matches[i].minimum_age = demographics.age

\* C2: with the age unknown no trial is excluded for its age bounds, with the
\* sex unknown or unmappable none is excluded for its sex: the trials that
\* pass the other axis are exactly the matches (all of them are counted, and
\* all of them are returned when the cap leaves room); with no demographics
\* every trial of the store matches.
C2_FilterPermissive ==
    (FilterReturned /\ (demographics.age = None \/ KnownSex = None)) =>
        LET otherAxis ==
                {id \in DOMAIN trials :
                    /\ (demographics.age # None =>
                            AgeAdmits(trials[id], Val(demographics.age)))
                    /\ (KnownSex # None => SexAdmits(trials[id], Val(KnownSex)))}
        IN  /\ total_matches = Some(Cardinality(otherAxis))
            /\ MatchIds \subseteq otherAxis
            /\ (limit >= Cardinality(otherAxis) => MatchIds = otherAxis)
            /\ ((demographics.age = None /\ KnownSex = None) =>
                    otherAxis = DOMAIN trials)

C2_Witness ==
    /\ FilterReturned
    /\ demographics.age # None
    /\ demographics.gender = Some("UN")
    /\ \E i \in DOMAIN matches : matches[i].sex = "FEMALE"
    /\ \E id \in DOMAIN trials : id \notin CompatibleTrials

\* C3: total_matches is the number of distinct trials satisfying the
\* demographic predicates whatever the cap, it is >= len(candidates), the
\* candidates are min(cap, total_matches) trials with pairwise distinct
\* trial_ids, and they are exactly the matching trials when the cap is not
\* smaller than total_matches.
C3_TotalAndCap ==
    FilterReturned =>
        /\ total_matches = Some(Cardinality(CompatibleTrials))
        /\ Val(total_matches) >= Len(matches)
        /\ Len(matches) = Min(limit, Val(total_matches))
        /\ Cardinality(MatchIds) = Len(matches)
        /\ MatchIds \subseteq CompatibleTrials
        /\ (limit >= Val(total_matches) => MatchIds = CompatibleTrials)

C3_Witness ==
    /\ FilterReturned
    /\ Len(matches) >= 1
    /\ Len(matches) = limit
    /\ Val(total_matches) > limit
    /\ MatchIds # CompatibleTrials

\* C4: when the store file does not exist the call returns the empty list
\* and a count of 0, and never opens a connection.
C4_MissingStore ==
    ~db_exists =>
        /\ conn = "none"
        /\ match_pc \in {"call", "returned"}
        /\ (match_pc = "returned" => matches = <<>> /\ total_matches = Some(0))

C4_Witness == ~db_exists /\ match_pc = "returned"

(***************************************************************************)
(* Properties of the Semantic Ranker (checked under SpecRank).             *)
(***************************************************************************)
RankDone == rank_pc = "done"

Happened(event) == \E i \in DOMAIN history : history[i] = event

\* event a is met, and later event b.
Precedes(a, b) ==
    \E i, j \in DOMAIN history : i < j /\ history[i] = a /\ history[j] = b

ReturnedRefs == Val(returned)

ReturnedScore(i) == matched_trials[ReturnedRefs[i]].semantic_score

AllReturnedScored == \A i \in DOMAIN ReturnedRefs : ReturnedScore(i) # None

NonIncreasingScores ==
    \A i, j \in DOMAIN ReturnedRefs :
        i < j => Val(ReturnedScore(i)) >= Val(ReturnedScore(j))

\* C5: a list returned by the primary or by the fallback path carries a
\* semantic_score on every element and is non-increasing in it.
C5_SortedByScore ==
    (RankDone /\ outcome \in {"primary", "fallback"}) =>
        AllReturnedScored /\ NonIncreasingScores

C5_Witness ==
    /\ RankDone
    /\ outcome = "primary"
    /\ Len(ReturnedRefs) >= 2
    /\ ReturnedRefs[1] > ReturnedRefs[2]
    /\ Val(ReturnedScore(1)) > Val(ReturnedScore(2))

\* The index could not be opened, or its queries raised to the end.
PrimaryFailed ==
    \/ Happened("collection_missing")
    \/ Happened("collection_error")
    \/ Happened("alternative_error")

\* C6: any failure of the primary path (collection missing or not opened, a
\* query raising) triggers the fallback path, whose result is the candidates
\* scored and sorted by descending score.
C6_FailureTriggersFallback ==
    (RankDone /\ PrimaryFailed) =>
        /\ Happened("fallback_started")
        /\ (outcome = "fallback" => AllReturnedScored /\ NonIncreasingScores)

\* C7: the unranked candidate list is returned only after the primary path
\* failed or came back empty and the fallback was then attempted and failed;
\* a call with candidates ends as primary, fallback or unranked.
C7_UnrankedOnlyAfterFallback ==
    /\ (RankDone /\ matched_trials # <<>>) =>
            outcome \in {"primary", "fallback", "unranked"}
    /\ (RankDone /\ outcome = "unranked") =>
            /\ Precedes("primary_empty", "fallback_started")
            /\ Precedes("fallback_started", "fallback_error")

\* The restricted query returned nothing, and the unrestricted one returned
\* nothing or no id of a candidate.
BothQueriesEmpty ==
    /\ Happened("restricted_empty")
    /\ Happened("unfiltered_empty") \/ Happened("unfiltered_disjoint")

ClaimedText(trial) == <<trial.trial_title>> \o trial.conditions

ClaimedSimilarity(u, v) == Dot(u, v) \div (Norm(u) * Norm(v))

\* C8: when both queries come back empty the fallback runs, and the list it
\* returns holds every candidate (up to the cut at top_k), each scored with
\* the cosine similarity of the query's embedding and the embedding of its
\* title and conditions, highest score first.
C8_EmptyQueriesFallBack ==
    BothQueriesEmpty =>
        /\ rank_pc \in {"process", "fallback", "done"}
        /\ rank_pc \in {"fallback", "done"} => Happened("fallback_started")
        /\ RankDone => outcome \in {"fallback", "unranked"}
        /\ (RankDone /\ outcome = "fallback") =>
              /\ \A i, j \in DOMAIN ReturnedRefs :
                    i # j => ReturnedRefs[i] # ReturnedRefs[j]
              /\ top_k = None => Len(ReturnedRefs) = Len(matched_trials)
              /\ top_k # None =>
                    Len(ReturnedRefs) >= Min(Val(top_k), Len(matched_trials))
              /\ \A i \in DOMAIN matched_trials :
                    /\ ClaimedText(matched_trials[i]) \in DOMAIN embeddings
                    /\ matched_trials[i].semantic_score =
                          Some(ClaimedSimilarity(embeddings[QueryText],
                                 embeddings[ClaimedText(matched_trials[i])]))
              /\ NonIncreasingScores
              /\ \A i \in DOMAIN matched_trials :
                    i \notin Range(ReturnedRefs) =>
                       \A j \in DOMAIN ReturnedRefs :
                          Val(ReturnedScore(j)) >= Val(matched_trials[i].semantic_score)

C8_Witness ==
    /\ RankDone
    /\ outcome = "fallback"
    /\ Happened("restricted_empty")
    /\ Happened("unfiltered_disjoint")
    /\ Len(matched_trials) = 3
    /\ ReturnedRefs = <<3, 1, 2>>
    /\ embeddings[<<3, 0 - 1, 0 - 2>>] = <<2, 0>>

\* C9: when the fallback fails the call returns the original candidates, in
\* input order, none of them carrying a semantic_score.
C9_FallbackFailureLeavesUnscored ==
    (RankDone /\ Happened("fallback_error")) =>
        /\ outcome = "unranked"
        /\ ReturnedRefs = AllRefs
        /\ \A i \in DOMAIN matched_trials : matched_trials[i].semantic_score = None

\* C10: with a non-null, non-negative top_k the primary and the fallback
\* path return min(top_k, number of ranked candidates) candidates, those of
\* highest semantic_score; with a null top_k nothing is cut.
C10_TopK ==
    (RankDone /\ outcome \in {"primary", "fallback"}) =>
        /\ top_k # None =>
              Len(ReturnedRefs) = Min(Val(top_k), Len(ranked_trials))
        /\ top_k = None => ReturnedRefs = ranked_trials
        /\ Range(ReturnedRefs) \subseteq Range(ranked_trials)
        /\ \A r \in Range(ranked_trials) \ Range(ReturnedRefs) :
              \A j \in DOMAIN ReturnedRefs :
                 Val(ReturnedScore(j)) >= Val(matched_trials[r].semantic_score)

\* C11: with a null top_k the list returned by the primary or the fallback
\* path is a permutation of the input candidates: each appears exactly once,
\* with a semantic_score, whatever ids the index returns.
C11_PermutationOfCandidates ==
    (RankDone /\ outcome \in {"primary", "fallback"} /\ top_k = None) =>
        /\ Len(ReturnedRefs) = Len(matched_trials)
        /\ Range(ReturnedRefs) = DOMAIN matched_trials
        /\ AllReturnedScored

\* C21: the primary path's list is the answer of the index (of the
\* restricted query, or of the query over the whole index cut down to the
\* candidates' ids), in the order the index returned it, holding candidates
\* only, each with semantic_score = 1 - the distance of its entry.
C21_PrimaryIsIndexAnswer ==
    (RankDone /\ outcome = "primary") =>
        LET r == Val(results)
            candidate_ids == {matched_trials[i].trial_id : i \in DOMAIN matched_trials}
            IsCandidate(id) == id \in candidate_ids
            answered == SelectSeq(r.ids, IsCandidate)
        IN  /\ Len(ranked_trials) = Len(answered)
            /\ \A i \in DOMAIN ranked_trials :
                  /\ ranked_trials[i] \in DOMAIN matched_trials
                  /\ matched_trials[ranked_trials[i]].trial_id = answered[i]
                  /\ \E k \in DOMAIN r.ids :
                        /\ r.ids[k] = answered[i]
                        /\ matched_trials[ranked_trials[i]].semantic_score =
                              Some(1 - r.distances[k])
            /\ Len(ReturnedRefs) <= Len(ranked_trials)
            /\ ReturnedRefs = SubSeq(ranked_trials, 1, Len(ReturnedRefs))
            /\ (Happened("restricted_empty") /\ ~Happened("query_error")) =>
                  \A k \in DOMAIN r.ids : r.ids[k] \in candidate_ids

C21_Witness ==
    /\ RankDone
    /\ outcome = "primary"
    /\ Happened("restricted_empty")
    /\ Len(matched_trials) = 3
    /\ ReturnedRefs = <<3, 1>>
    /\ Val(ReturnedScore(1)) > Val(ReturnedScore(2))

\* C22: two returned candidates of equal semantic_score stand in the order
\* they had in the input, on the primary and on the fallback path.
C22_TiesKeepInputOrder ==
    (RankDone /\ outcome \in {"primary", "fallback"}) =>
        \A i, j \in DOMAIN ReturnedRefs :
            (i < j /\ ReturnedScore(i) = ReturnedScore(j)) =>
                ReturnedRefs[i] < ReturnedRefs[j]

(***************************************************************************)
(* Properties of the pipeline (checked under SpecPipeline).                *)
(***************************************************************************)
Called(op, i) == \E k \in DOMAIN calls : calls[k] = Call(op, i)

PatientOps ==
    {"parse_ccda_file", "match_patient_to_trials", "rank_matched_trials",
     "write_results_txt", "write_results_json", "evaluate_patient_eligibility",
     "write_eligibility_json"}

\* C12: no patient whose file parses makes the pipeline raise, and a finished
\* run over a directory holds a result for every file that parses.
C12_NoPatientRaises ==
    /\ raised = None
    /\ (entry = "run_pipeline" /\ pipeline_pc = "done") =>
          \A i \in DOMAIN patient_files :
              parse_ccda_file(i) # None => i \in Range(patient_results)

\* C13: for a file the parser returns null for, nothing raises and no later
\* step runs: the store and the index are not queried, the evaluator is not
\* called, no result file is written and the patient has no result.
C13_NullParseStopsPatient ==
    \A i \in DOMAIN patient_files :
        parse_ccda_file(i) = None =>
            /\ \A op \in PatientOps \ {"parse_ccda_file"} : ~Called(op, i)
            /\ ~Called("generate_output", i)
            /\ i \notin Range(patient_results)
            /\ (patient_index = i =>
                   /\ raised = None
                   /\ filter_result = None
                   /\ ranker_result = None
                   /\ json_record = None)

C13_Witness ==
    /\ entry = "run_pipeline"
    /\ pipeline_pc = "done"
    /\ Len(patient_files) = 2
    /\ parse_ccda_file(1) = None
    /\ Called("parse_ccda_file", 1)
    /\ patient_results = <<2>>

\* C19: the store is created exactly when the SQLite file was missing, the
\* index is built exactly when its directory was missing or empty, and no
\* patient is touched before both setup steps are over.
C19_SetupOnlyWhenMissing ==
    [][entry = "run_pipeline" =>
        /\ (pipeline_pc = "step1" /\ pipeline_pc' # "step1") =>
              IF sqlite_exists
                THEN calls' = calls
                ELSE calls' = Append(calls, Call("process_json_file", 0))
        /\ (pipeline_pc = "step2" /\ pipeline_pc' # "step2") =>
              IF chroma_dir = "populated"
                THEN calls' = calls
                ELSE calls' = Append(calls, Call("create_corpus_db", 0))
        /\ pipeline_pc \notin {"step1", "step2"} =>
              /\ ~Called("process_json_file", 0) => ~Called("process_json_file", 0)'
              /\ ~Called("create_corpus_db", 0) => ~Called("create_corpus_db", 0)'
        /\ pipeline_pc' \in {"step1", "step2"} =>
              \A k \in DOMAIN calls' : calls'[k].patient = 0]_vars

C19_Witness ==
    /\ entry = "run_pipeline"
    /\ pipeline_pc = "done"
    /\ Called("create_corpus_db", 0)
    /\ ~Called("process_json_file", 0)
    /\ patient_results # <<>>

\* C20: the record written by match_and_rank_trials carries the ranker's
\* list as it was returned and the filter's count of all matches.
C20_RecordIsRankerAndCount ==
    json_record # None =>
        /\ Val(json_record).matched_trials = Val(ranker_result)
        /\ Val(json_record).total_matches = Val(filter_result).total_matches

C20_Witness ==
    /\ json_record # None
    /\ Called("write_results_json", patient_index)
    /\ Len(Val(ranker_result)) < Val(filter_result).total_matches
    /\ Val(json_record).matched_trials # Val(filter_result).matched_trials

(***************************************************************************)
(* Properties of the Query Synthesizer (checked under SpecQuery).          *)
(***************************************************************************)
\* C14: the synthesizer raises for no record, whatever is missing or null.
C14_QueryNeverRaises ==
    first_query # None => ~Val(first_query).raised

\* The clauses in the order demographic, conditions, medications, abnormal
\* labs, procedures, clinical notes.
ClausesInOrder ==
    <<DemographicParts(record.demographics), ConditionParts(record.conditions),
      MedicationParts(record.medications), LabParts(record.labs),
      ProcedureParts(record.procedures), NoteParts(record.clinicalNotes)>>

RECURSIVE Flatten(_)
Flatten(ss) == IF ss = <<>> THEN <<>> ELSE Head(ss) \o Flatten(Tail(ss))

\* C15: a returned query is the literal fallback exactly when no clause has
\* content, and otherwise the clauses' parts in the fixed order with one
\* space between them.
C15_FallbackOrOrderedClauses ==
    (first_query # None /\ ~Val(first_query).raised) =>
        LET parts == Flatten(ClausesInOrder)
            query == Val(first_query).value
        IN  /\ (query = FallbackQuery) <=> (\A k \in 1..6 : ClausesInOrder[k] = <<>>)
            /\ parts # <<>> => query = Join(" ", parts)

C15_Witness ==
    /\ first_query # None
    /\ ~Val(first_query).raised
    /\ \A k \in 1..6 : ClausesInOrder[k] # <<>>
    /\ Len(record.conditions) >= 2

DemographicClauseOf(age, gender) ==
    IF age # None /\ gender # None
      THEN << <<ToString(Val(age)),
                IF Val(gender) = "M" THEN "-year-old male patient"
                ELSE "-year-old female patient">> >>
    ELSE IF age # None THEN << <<ToString(Val(age)), "-year-old patient">> >>
    ELSE IF gender # None
      THEN << <<IF Val(gender) = "M" THEN "Male patient" ELSE "Female patient">> >>
    ELSE <<>>

\* C24: for a patient of known age (any integer from 0 up) and sex M or F the
\* query opens with '<age>-year-old male patient' or '<age>-year-old female
\* patient'; with the sex missing it names the age alone, with the age
\* missing the sex alone, and it has no demographic clause exactly when both
\* are missing.
C24_DemographicClause ==
    (first_query # None /\ ~Val(first_query).raised /\ record.demographics # None
        /\ Val(record.demographics).gender \in {None, Some("M"), Some("F")}) =>
        LET demo == Val(record.demographics)
            clause == DemographicClauseOf(demo.age, demo.gender)
            parts == clause \o Flatten(Tail(ClausesInOrder))
        IN  /\ (clause = <<>>) <=> (demo.age = None /\ demo.gender = None)
            /\ Val(first_query).value =
                  IF parts = <<>> THEN FallbackQuery ELSE Join(" ", parts)

\* 'diagnosed with A', 'diagnosed with A and B' or 'diagnosed with A, B and C'.
DiagnosedWith(names) ==
    IF Len(names) = 1 THEN <<"diagnosed with ", names[1]>>
    ELSE IF Len(names) = 2 THEN <<"diagnosed with ", names[1], " and ", names[2]>>
    ELSE <<"diagnosed with ", names[1], ", ", names[2], " and ", names[3]>>

\* The positions of the conditions that have a name.
NamedPositions == {i \in DOMAIN record.conditions : record.conditions[i].name # None}

\* picked lists min(3, number named) named conditions, most recent first,
\* and none left out is more recent than one picked.
MostRecentNamed(picked) ==
    /\ \A i \in 1..(Len(picked) - 1) :
          Val(record.conditions[picked[i]].onsetDate)
              >= Val(record.conditions[picked[i + 1]].onsetDate)
    /\ \A i \in DOMAIN picked : \A j \in NamedPositions \ Range(picked) :
          Val(record.conditions[picked[i]].onsetDate)
              >= Val(record.conditions[j].onsetDate)

\* C25: a returned query has no condition clause exactly when no condition
\* has a name; otherwise the clause names min(3, number named) of the named
\* conditions, most recent onset date first, as 'diagnosed with A',
\* 'diagnosed with A and B' or 'diagnosed with A, B and C'.
C25_ConditionClause ==
    (first_query # None /\ ~Val(first_query).raised) =>
        LET n == Min(ConditionsNamed, Cardinality(NamedPositions))
            before == ClausesInOrder[1]
            after == Flatten(SubSeq(ClausesInOrder, 3, 6))
            query == Val(first_query).value
        IN  IF n = 0
              THEN query = IF before \o after = <<>> THEN FallbackQuery
                           ELSE Join(" ", before \o after)
              ELSE \E picked \in Arrangements(NamedPositions, n) :
                      /\ MostRecentNamed(picked)
                      /\ query = Join(" ", before
                            \o <<DiagnosedWith([i \in 1..n |->
                                    Val(record.conditions[picked[i]].name)])>>
                            \o after)

C25_Witness ==
    /\ first_query # None
    /\ ~Val(first_query).raised
    /\ Cardinality(NamedPositions) = 4
    /\ Len(record.conditions) = 4
    /\ Val(record.conditions[1].onsetDate) < Val(record.conditions[2].onsetDate)
    /\ Val(record.conditions[3].onsetDate) < Val(record.conditions[4].onsetDate)

\* The lab has a numeric value outside a range written 'low-high' with two
\* numbers that carry no sign.
OutsideParsedRange(lab) ==
    /\ lab.value # None
    /\ Len(Val(lab.value)) = 1
    /\ Val(lab.value)[1] >= 0
    /\ Len(lab.referenceRange) = 3
    /\ lab.referenceRange[1] >= 0
    /\ lab.referenceRange[2] = Dash
    /\ lab.referenceRange[3] >= 0
    /\ \/ Val(lab.value)[1] < lab.referenceRange[1]
       \/ Val(lab.value)[1] > lab.referenceRange[3]

AbnormalPositions == {i \in DOMAIN record.labs : OutsideParsedRange(record.labs[i])}

\* C26: the labs make no call raise, and a returned query has the clause
\* 'with abnormal ...' exactly when one or two labs have a numeric value
\* outside a range that parses as 'low-high'; it then names those labs in
\* input order joined by ' and '.  A lab with a non-numeric value, with an
\* unparseable range or with a negative bound is not counted, and three or
\* more abnormal labs leave no clause.
C26_AbnormalLabClause ==
    first_query # None =>
        /\ ~QueryRaises([record EXCEPT !.labs = <<>>]) => ~Val(first_query).raised
        /\ ~Val(first_query).raised =>
              LET keep == Positions(Len(record.labs), AbnormalPositions)
                  named == Cardinality(AbnormalPositions) \in 1..LabsNamed
                  clause == IF named
                              THEN << <<"with abnormal ">>
                                      \o Join(" and ", [i \in DOMAIN keep |->
                                                  LabText(record.labs[keep[i]])]) >>
                              ELSE <<>>
                  parts == Flatten(SubSeq(ClausesInOrder, 1, 3)) \o clause
                              \o Flatten(SubSeq(ClausesInOrder, 5, 6))
              IN  Val(first_query).value =
                     IF parts = <<>> THEN FallbackQuery ELSE Join(" ", parts)

C26_Witness ==
    /\ first_query # None
    /\ ~Val(first_query).raised
    /\ Cardinality(AbnormalPositions) = 3
    /\ record.demographics = None

C26_WitnessSkipped ==
    /\ first_query # None
    /\ ~Val(first_query).raised
    /\ Cardinality(AbnormalPositions) = 1
    /\ \E i \in DOMAIN record.labs : record.labs[i].referenceRange = <<Dash, 2, Dash, 4>>
    /\ \E i \in DOMAIN record.labs : record.labs[i].value = Some(<<Letters>>)

(***************************************************************************)
(* Properties of the evaluator (checked under SpecEvaluate).               *)
(***************************************************************************)
\* C17: the evaluator returns one entry for each of the first min(top_k, n)
\* trials of the file, in rank order, counts them in trials_evaluated, and
\* an LLM call that raises or answers no JSON leaves an entry with an error.
C17_OneEntryPerTopTrial ==
    eligibility_results # None =>
        LET out == Val(eligibility_results)
            m == IF eval_top_k <= Len(trials_data) THEN eval_top_k
                 ELSE Len(trials_data)
        IN  /\ Len(out.results) = m
            /\ out.trials_evaluated = m
            /\ \A i \in 1..m :
                  /\ out.results[i].trial_id = trials_data[i].trial_id
                  /\ llm_log[i] \in {"raises", "not_json"} =>
                        out.results[i].error # None
                  /\ llm_log[i] = "json" =>
                        /\ out.results[i].error = None
                        /\ out.results[i].evaluation # None

C17_Witness ==
    /\ eligibility_results # None
    /\ Len(trials_data) = 3
    /\ eval_top_k = 2
    /\ llm_log = <<"raises", "json">>
    /\ Len(Val(eligibility_results).results) = 2

(***************************************************************************)
(* Properties of the report formatter (checked under SpecFormat).          *)
(***************************************************************************)
NonIncreasing(items) ==
    \A i, j \in DOMAIN items :
        i < j => items[i].semantic_score >= items[j].semantic_score

IdsOf(items) == {items[i].trial_id : i \in DOMAIN items}

\* C18: every result is in exactly one list: the indeterminate one when it
\* has an error or no evaluation, else the eligible one when every criterion
\* is met, else the ineligible one; each list is sorted by score, descending.
C18_ThreeWayPartition ==
    formatted_output # None =>
        LET trial_results == Val(eligibility_results).results
            out == Val(formatted_output)
            unknown == {i \in DOMAIN trial_results :
                           trial_results[i].error # None \/ trial_results[i].evaluation = None}
            met == {i \in DOMAIN trial_results \ unknown :
                       \A c \in Range(Val(trial_results[i].evaluation)) :
                           c.is_met = Some(TRUE)}
        IN  /\ IdsOf(out.indeterminate_trials) = {trial_results[i].trial_id : i \in unknown}
            /\ IdsOf(out.eligible_trials) = {trial_results[i].trial_id : i \in met}
            /\ IdsOf(out.ineligible_trials) =
                  {trial_results[i].trial_id : i \in (DOMAIN trial_results \ unknown) \ met}
            /\ Len(out.eligible_trials) + Len(out.ineligible_trials)
                  + Len(out.indeterminate_trials) = Len(trial_results)
            /\ NonIncreasing(out.eligible_trials)
            /\ NonIncreasing(out.ineligible_trials)
            /\ NonIncreasing(out.indeterminate_trials)

C18_Witness ==
    /\ formatted_output # None
    /\ Len(Val(formatted_output).eligible_trials) = 2
    /\ Val(eligibility_results).results[1].semantic_score
          < Val(eligibility_results).results[2].semantic_score
    /\ Val(eligibility_results).results[1].evaluation = Some(<<>>)

(***************************************************************************)
(* Properties of the two report formatters (checked under SpecFormat).     *)
(***************************************************************************)
\* C29: on the same eligibility results, the trials in eligibleTrials of
\* format_simple_results are the trials in eligible_trials of
\* format_results_for_output, a trial with an empty evaluation list included.
C29_FormattersAgree ==
    (formatted_output # None /\ simple_output # None) =>
        {Val(simple_output).eligibleTrials[i].trialId :
            i \in DOMAIN Val(simple_output).eligibleTrials}
        = {Val(formatted_output).eligible_trials[i].trial_id :
            i \in DOMAIN Val(formatted_output).eligible_trials}

(***************************************************************************)
(* Properties of the stored ages (checked under SpecAge).                  *)
(***************************************************************************)
\* The whole years of an age string: None when it states no age.
WholeYears(age_string) ==
    IF age_string = <<>> \/ age_string = <<Word("N/A")>> THEN None
    ELSE LET n == Val(age_string[1].digits)
             unit == age_string[2].word
         IN  Some(IF unit = "Years" THEN n
                  ELSE IF unit = "Months" THEN n \div 12
                  ELSE IF unit = "Weeks" THEN n \div 52
                  ELSE n \div 365)

\* C28: the minimum_age and maximum_age stored for a trial are the ages of
\* its age strings in whole years, None for a string that states no age,
\* whether the string counts years, months, weeks or days.
C28_AgesInYears ==
    structured_criteria # None =>
        /\ Val(structured_criteria).minimum_age = WholeYears(minimumAge)
        /\ Val(structured_criteria).maximum_age = WholeYears(maximumAge)

(***************************************************************************)
(* Properties of the batch ingestion (checked under SpecIngest).           *)
(***************************************************************************)
\* The ids of the add calls made so far, one after the other.
IdsOfCalls == Flatten([k \in DOMAIN add_calls |-> add_calls[k].ids])

\* C27: every collection.add carries a non-empty batch of at most batch_size
\* trials, the batches taken one after the other are consecutive slices of
\* the store's id list, a completed run has added every trial of the store
\* exactly once, and a batch whose add failed has none of its documents in
\* the index.
C27_BatchIngestion ==
    /\ \A k \in DOMAIN add_calls :
          /\ add_calls[k].ids # <<>>
          /\ Len(add_calls[k].ids) <= batch_size
          /\ k < Len(add_calls) => add_calls[k].added
    /\ IdsOfCalls = SubSeq(stored_ids, 1, Len(IdsOfCalls))
    /\ \A k \in DOMAIN add_calls :
          ~add_calls[k].added => Range(add_calls[k].ids) \cap Range(collection) = {}
    /\ ingest_pc = "completed" =>
          /\ \A id \in Range(stored_ids) :
                Cardinality({p \in DOMAIN collection : collection[p] = id}) = 1
          /\ Len(collection) = Len(stored_ids)
          /\ \A k \in DOMAIN add_calls : add_calls[k].added

C27_Witness ==
    /\ ingest_pc = "completed"
    /\ Len(stored_ids) = 4
    /\ batch_size = 3
    /\ Len(add_calls) = 2

C27_WitnessFailed ==
    /\ ingest_pc = "raised"
    /\ Len(add_calls) = 2
    /\ collection = <<1, 2>>

(***************************************************************************)
(* Properties of the downloader (checked under SpecDownload).              *)
(***************************************************************************)
\* C30: no page is asked for more than max_retries times; a page is asked
\* for only when every page before it was answered; the file is written only
\* when the loop has ended on an answer without studies or without a
\* nextPageToken, and then holds every study retrieved; and when a page has
\* failed max_retries times in a row the call has raised and the file is not
\* written, whatever was retrieved before.
C30_RetriesAndSave ==
    /\ \A p \in DOMAIN requests_made : requests_made[p] <= max_retries
    /\ \A p \in 1..(page_number - 1) : succeeded[p]
    /\ output_file # None =>
          /\ download_pc = "saved"
          /\ succeeded[page_number]
          /\ StudiesOf(page_number) = <<>> \/ ~HasNextPage(page_number)
          /\ Val(output_file) = all_studies
          /\ all_studies = [p \in 1..Min(page_number, server_pages) |-> p]
    /\ (max_retries > 0 /\ attempt = max_retries) =>
          /\ download_pc = "raised"
          /\ ~succeeded[page_number]
          /\ requests_made[page_number] = max_retries
    /\ download_pc = "raised" => output_file = None

C30_Witness ==
    /\ download_pc = "raised"
    /\ max_retries = 3
    /\ page_number = 2
    /\ all_studies = <<1>>
    /\ requests_made = <<2, 3>>
    /\ output_file = None

(***************************************************************************)
(* Properties of the conditions and interventions of a returned trial.     *)
(***************************************************************************)
\* C23: the conditions list of a returned trial holds each distinct stored
\* condition name once and nothing else, its interventions list holds one
\* entry for each distinct stored (type, name) pair, and a trial with no
\* stored row gets two empty lists.
C23_ListsAreStoredRows ==
    row_pc = "returned" =>
        LET t == Val(returned_trial)
        IN  /\ Len(t.conditions) = Cardinality(StoredConditionNames)
            /\ Range(t.conditions) = StoredConditionNames
            /\ Len(t.interventions) = Cardinality(StoredInterventions)
            /\ Range(t.interventions) =
                  {[intervention |-> InterventionText(x)] : x \in StoredInterventions}

====
